---- MODULE Spec2Model ----
(***************************************************************************)
(* Model of the pan-tilt serial handshake tools:                           *)
(*   pantilt_comm.py      PanTiltConnector, try_all_configurations          *)
(*   pantilt_simulator.py PanTiltController, main                           *)
(*   pantilt_protocol.py  PanTiltProtocol                                   *)
(* Spec     : the handshake attempts and the configuration sweeps, one      *)
(*            action per send, receive and control-line step.               *)
(* RecvSpec : the receive loops (receive_response, read_response) polled    *)
(*            against a clock, one action per loop step.                    *)
(***************************************************************************)
EXTENDS Integers, Sequences, FiniteSets, TLC

\* ------------------------------------------------------------------ bytes
START == 60
END == 124
ESC == 92
NUL == 0

\* ------------------------------------------------------------ bounds
\* write failures injected per program run
MaxWriteFails == 1
\* baud groups of try_all_configurations that the model walks through
MaxBaudGroups == 2
\* iterations of an unbounded drain loop that the device keeps feeding
MaxDrain == 2

\* ------------------------------------------------------- command tables
SYNC_CMD == <<60>>
INIT_CMD == <<60, 128, 92, 192, 92, 112, 92, 96, 92, 130, 202, 248, 248, 12, 12, 156, 204, 172, 156, 140, 140, 92, 120, 92, 226, 124>>
HEARTBEAT_CMD == <<60, 128, 92, 192, 92, 176, 92, 96, 92, 202, 42, 24, 0, 0, 12, 12, 156, 204, 172, 156, 92, 8, 92, 226, 124>>
ALT_INIT_CMD == <<60, 192, 92, 128, 92, 192, 92, 130, 202, 92, 92, 200, 92, 226, 124>>

COMMANDS == [sync |-> SYNC_CMD, initialization |-> INIT_CMD, heartbeat |-> HEARTBEAT_CMD]

EXPECTED_RESPONSES == [sync |-> <<60>>,
                       initialization |-> <<60, 192, 92, 128, 92, 192, 92, 130, 202, 92, 92, 200, 92, 226, 124>>,
                       heartbeat |-> <<60, 192, 92, 128, 92, 192, 92, 202, 42, 92, 92, 96, 92, 226, 124>>]

\* loop counts and caps of the source
SYNC_ATTEMPTS == 5
SIM_SYNC_ATTEMPTS == 3
HEARTBEATS == 3
CONFIGS_PER_BAUD == 4
SIM_CONFIGS == 6
max_bytes == 50
WAKEUP_NULS == 3
SYNC_FLOOD == 10

VARIABLES
    prog,        \* which tool runs: "comm", "sim", "proto"
    mode,        \* "single" (one connect + one attempt) or "sweep"
    send_style,  \* comm: "normal" (send_command) or "byte_by_byte"
    profile,     \* the device's behaviour for the current candidate
    pc,          \* position in the running tool
    is_open,     \* self.ser is set and self.ser.is_open
    rts, dtr,    \* control line levels of the port
    i,           \* loop index of the loop pc is in
    response,    \* the bytes the last receive returned
    success,     \* the success flag of the last send / of the heartbeat loop
    ret,         \* return value of run_test_sequence / run_protocol_sequence
    log,         \* transaction_log (sim) / raw_log entries since the port was opened (comm)
    trace,       \* history: the sends, receives and line changes of the current attempt
    cand,        \* sweep: index of the current candidate (0 before the first)
    readyAt,     \* history: first candidate whose attempt was reported a success (0: none)
    openedAfterReady, \* history: a port was opened for a candidate after readyAt
    sentAfterReady,   \* history: a byte was written under a candidate after readyAt
    writeFails,  \* history: number of write failures injected
    drained,     \* iterations of the current drain loop
    old_rts, old_dtr, \* toggle_rts_dtr's saved line levels
    port_cfg,    \* the settings the port was last opened with, and that connect reset its buffers
    \* ---- the receive loops (RecvSpec)
    rprog,       \* "comm" (receive_response, also pantilt_protocol's) or "sim" (read_response)
    timeout,     \* the timeout argument, in ticks
    expected_end,\* receive_response: an end marker was passed
    min_bytes,   \* receive_response: the min_bytes argument
    stream,      \* history: everything the device sends during the call
    burst,       \* history: the device put the whole stream on the line at once
    dev,         \* the part of stream the device has not put on the line yet
    inq,         \* the port's input buffer (ser.in_waiting bytes)
    resp,        \* receive_response: response; read_response: the value returned
    rst,         \* read_response: buffer, raw_buffer, found_start, and the break
    elapsed,     \* time.time() - start_time, in ticks
    rpc,         \* position in the receive loop
    lastPoll,    \* history: elapsed at the last check of in_waiting in the loop (-1: none)
    readAt,      \* history: elapsed at the first read that returned bytes (-1: none)
    exitReason,  \* history: why the loop was left
    \* ---- compare_response (CmpSpec)
    actual,      \* the bytes received
    expected,    \* the pattern they are compared with
    differences, \* the positions found to differ so far (0-based, as in the source)
    length_mismatch, \* the length warning was logged
    cmp_i,       \* the loop index of the position loop
    cmp_pc,      \* position in compare_response
    cmp_ret,     \* its return value
    matched,     \* sim: what the last compare_response call said ("none": not called)
    first,       \* an earlier run of the handshake: its trace and outcome
    sfun,        \* the send function called
    sname,       \* its command_name / command_type argument
    sidx,        \* send_bytes_with_delay: the loop index i
    wire,        \* the bytes the port has taken so far
    slog,        \* the TX entries appended so far (their data)
    delayed,     \* history: number of bytes whose delay has started
    sfailed,     \* history: a write raised
    spc,         \* position in the send function
    sret,        \* its return value
    running,     \* HexTerminal.running
    mon_pc,      \* position of the monitor thread
    op_pc,       \* position of the main thread
    port_open,   \* self.ser.is_open
    rxbuf,       \* the port's input buffer
    nread,       \* the in_waiting value passed to read
    arrived,     \* history: the bytes the device has sent, numbered in order
    surfaced,    \* history: the bytes the monitor has printed after RX:
    wrote,       \* history: the operator has sent a command
    in_waiting,  \* pantilt_protocol's drain loop: bytes wait in the port (ser.in_waiting > 0)
    pauses       \* history: the sleeps of a byte-by-byte send, after how many bytes and how long

hvars == <<prog, mode, send_style, profile, pc, is_open, rts, dtr, i, response,
           success, ret, log, trace, cand, readyAt, openedAfterReady,
           sentAfterReady, writeFails, drained, old_rts, old_dtr, port_cfg>>

rvars == <<rprog, timeout, expected_end, min_bytes, stream, burst, dev, inq, resp, rst,
           elapsed, rpc, lastPoll, readAt, exitReason>>

cvars == <<actual, expected, differences, length_mismatch, cmp_i, cmp_pc, cmp_ret>>

\* everything outside the handshake and the receive loops
twvars == <<matched, first>>

svars == <<sfun, sname, sidx, wire, slog, delayed, sfailed, spc, sret>>

mvars == <<running, mon_pc, op_pc, port_open, rxbuf, nread, arrived, surfaced, wrote>>

dvars == <<in_waiting>>

pvars == <<pauses>>

\* the tools modelled on their own
lvars == <<svars, mvars, dvars, pvars>>

xvars == <<cvars, twvars, lvars>>

\* what compare_response leaves alone
cmpRest == <<hvars, rvars, twvars, lvars>>

vars == <<hvars, rvars, xvars>>

\* ------------------------------------------------------------ helpers
Last(s) == s[Len(s)]

\* hex_to_bytes / bytes.fromhex: the tables above hold the converted bytes
\* entries of the history `trace`: a write of a command (ok: it succeeded), a
\* receive (ok: it returned bytes; data: the bytes the device had sent) and
\* an assignment to a control line (ok: the level)
Tx(what, ok) == [k |-> "tx", what |-> what, ok |-> ok, data |-> <<>>]
Rx(what, got, r) == [k |-> "rx", what |-> what, ok |-> got, data |-> r]
Line(name, level) == [k |-> "line", what |-> name, ok |-> level, data |-> <<>>]

\* ------------------------------------------------------------ the device
\* What the device may put on the line in the window after a command.
Junk == <<128>>
Partial == <<60, 128>>

Expected(what) ==
    CASE what \in {"init", "alt_init", "init_resend", "init_slow"} -> EXPECTED_RESPONSES.initialization
      [] what \in {"hb_direct", "heartbeat"} -> EXPECTED_RESPONSES.heartbeat
      [] OTHER -> EXPECTED_RESPONSES.sync

DeviceResponses(what) ==
    CASE profile = "silent" -> {<<>>}
      [] profile = "answers" -> {Expected(what)}
      [] profile = "initonly" -> IF what = "init" THEN {Expected(what)} ELSE {<<>>}
      [] OTHER -> {<<>>, Expected(what)}
                    \cup (IF prog \in {"comm", "sim"} THEN {Junk} ELSE {})
                    \cup (IF prog = "sim" THEN {Partial} ELSE {})

\* ---------------------------------------------- simulator: read_response
\* One pass of the while body with a byte available (lines 171-185).
SimStepStripEsc(st, b) ==
    IF ~st.found_start /\ b = START
    THEN [st EXCEPT !.raw_buffer = Append(@, b), !.found_start = TRUE, !.buffer = <<b>>]
    ELSE IF st.found_start
    THEN [st EXCEPT !.raw_buffer = Append(@, b),
                    !.buffer = IF b = ESC THEN @ ELSE Append(@, b),
                    !.stop = (b = END)]
    ELSE [st EXCEPT !.raw_buffer = Append(@, b)]

SimStepRestart(st, b) ==
    IF b = START
    THEN [st EXCEPT !.raw_buffer = Append(@, b), !.found_start = TRUE, !.buffer = <<b>>]
    ELSE IF st.found_start
    THEN [st EXCEPT !.raw_buffer = Append(@, b),
                    !.buffer = Append(@, b),
                    !.stop = (b = END)]
    ELSE [st EXCEPT !.raw_buffer = Append(@, b)]

SimStep(st, b) ==
    IF ~st.found_start /\ b = START
    THEN [st EXCEPT !.raw_buffer = Append(@, b), !.found_start = TRUE, !.buffer = <<b>>]
    ELSE IF st.found_start
    THEN [st EXCEPT !.raw_buffer = Append(@, b),
                    !.buffer = Append(@, b),
                    !.stop = (b = END)]
    ELSE [st EXCEPT !.raw_buffer = Append(@, b)]

SimStart == [buffer |-> <<>>, raw_buffer |-> <<>>, found_start |-> FALSE, stop |-> FALSE]

\* The loop condition apart from the clock (line 169) and the break (line 185).
SimMayRead(st) == ~st.stop /\ Len(st.buffer) < max_bytes

\* The loop run over a stream that is available in full before the deadline.
RECURSIVE SimLoop(_, _)
SimLoop(st, s) ==
    IF s = <<>> \/ ~SimMayRead(st) THEN st
    ELSE SimLoop(SimStep(st, Head(s)), Tail(s))

SimResultBufferOnly(st) == st.buffer

\* What read_response returns (lines 196-201, 220).
SimResult(st) == IF st.buffer = <<>> THEN st.raw_buffer ELSE st.buffer

\* The RX entry read_response appends (lines 209-214): only when buffer is set.
SimRxEntries(st, expected_type) ==
    IF st.buffer = <<>> THEN <<>>
    ELSE <<[dir |-> "RX", name |-> expected_type, data |-> st.buffer]>>

\* ------------------------------------------------- comm: sends and log
\* raw_log entries of one send: send_command writes one TX entry before the
\* write (line 165); send_bytes_with_delay one entry per byte written (line 141).
CommTxEntries(style, cmd, written) ==
    IF style = "normal"
    THEN <<[dir |-> "TX", name |-> "", data |-> cmd]>>
    ELSE [j \in 1..written |-> [dir |-> "TX", name |-> "", data |-> <<cmd[j]>>]]

CommRxEntriesNone(r) == <<>>

CommRxEntries(r) ==
    IF r = <<>> THEN <<>> ELSE <<[dir |-> "RX", name |-> "", data |-> r]>>

\* the byte at which an injected write failure happens
FailPos(style, cmd) ==
    IF style = "normal" THEN {1} ELSE {1, (Len(cmd) + 1) \div 2, Len(cmd)}

NoteSent == sentAfterReady' = (sentAfterReady \/ readyAt # 0)

CommSendOk(style, cmd, what) ==
    /\ log' = log \o CommTxEntries(style, cmd, Len(cmd))
    /\ trace' = Append(trace, Tx(what, TRUE))
    /\ NoteSent
    /\ UNCHANGED writeFails

CommSendFail(style, cmd, what) ==
    /\ writeFails < MaxWriteFails
    /\ writeFails' = writeFails + 1
    /\ \E k \in FailPos(style, cmd) :
          /\ log' = log \o CommTxEntries(style, cmd, k - 1)
          /\ sentAfterReady' = (sentAfterReady \/ (readyAt # 0 /\ k > 1))
    /\ trace' = Append(trace, Tx(what, FALSE))

\* receive_response as the handshake sees it: the bytes the device delivered
\* in the window, logged when not empty (lines 205-215).
CommReceive(what, r) ==
    /\ response' = r
    /\ log' = log \o CommRxEntries(r)
    /\ trace' = Append(trace, Rx(what, r # <<>>, r))

runv == <<prog, mode, send_style>>
cfgv == <<runv, port_cfg>>

\* ------------------------------------------------- the port's settings
\* no port has been opened
NoPort == [baud |-> "none", parity |-> "none", stopbits |-> 0, rtscts |-> FALSE,
           cleared |-> FALSE]
OpenedUncleared(baud, parity, stopbits, rtscts) ==
    [baud |-> baud, parity |-> parity, stopbits |-> stopbits, rtscts |-> rtscts,
     cleared |-> FALSE]

\* a port opened by connect: Serial(...), then reset_input_buffer and
\* reset_output_buffer
Opened(baud, parity, stopbits, rtscts) ==
    [baud |-> baud, parity |-> parity, stopbits |-> stopbits, rtscts |-> rtscts,
     cleared |-> TRUE]

\* try_all_configurations: the baud rates (line 383) and the four connect
\* calls made for each of them (lines 392-414)
baud_rates == <<9600, 4800, 2400, 19200, 38400, 57600, 115200>>
sweep_connects == << [parity |-> "N", rtscts |-> FALSE], [parity |-> "N", rtscts |-> TRUE],
                     [parity |-> "E", rtscts |-> FALSE], [parity |-> "O", rtscts |-> FALSE] >>
\* pantilt_simulator.main: configs_to_try (lines 296-304)
configs_to_try == << <<"N", 1>>, <<"E", 1>>, <<"O", 1>>, <<"N", 2>>, <<"E", 2>>, <<"O", 2>> >>

\* the settings connect is called with for candidate c of pantilt_comm
CommSettings(c) ==
    IF mode = "sweep"
    THEN Opened(baud_rates[((c - 1) \div CONFIGS_PER_BAUD) + 1],
                sweep_connects[((c - 1) % CONFIGS_PER_BAUD) + 1].parity, 1,
                sweep_connects[((c - 1) % CONFIGS_PER_BAUD) + 1].rtscts)
    ELSE Opened("arg", "N", 1, FALSE)
histv == <<readyAt, openedAfterReady, sentAfterReady>>
linev == <<rts, dtr, old_rts, old_dtr>>

\* ------------------------------------------- comm: connect / disconnect
\* PanTiltConnector.connect (lines 54-95); try_all_configurations ignores the
\* result, main (line 440) does not.
CommConnect ==
    /\ prog = "comm" /\ pc = "c_connect"
    /\ cand' = IF mode = "sweep" THEN cand + 1 ELSE cand
    /\ profile' \in (IF mode = "sweep" THEN {"silent", "answers", "initonly"} ELSE {"free"})
    /\ openedAfterReady' = (openedAfterReady \/ readyAt # 0)
    /\ \/ /\ is_open' = TRUE /\ rts' = FALSE /\ dtr' = FALSE
          /\ port_cfg' = CommSettings(cand')
          /\ pc' = "c_run"
       \/ /\ is_open' = FALSE /\ UNCHANGED <<rts, dtr, port_cfg>>
          /\ pc' = IF mode = "sweep" THEN "c_run" ELSE "done"
    /\ log' = <<>> /\ trace' = <<>> /\ ret' = "none"
    /\ UNCHANGED <<rvars, xvars, runv, i, response, success, readyAt, sentAfterReady,
                   writeFails, drained, old_rts, old_dtr>>

\* PanTiltConnector.disconnect (lines 97-114)
CommDisconnect ==
    /\ prog = "comm" /\ pc = "sw_disc"
    /\ IF is_open
       THEN dtr' = TRUE /\ rts' = TRUE /\ is_open' = FALSE
       ELSE UNCHANGED <<dtr, rts, is_open>>
    /\ pc' = IF cand % CONFIGS_PER_BAUD = 0 THEN "sw_gate" ELSE "c_connect"
    /\ UNCHANGED <<rvars, xvars, cfgv, profile, i, response, success, ret, log, trace, cand,
                   histv, writeFails, drained, old_rts, old_dtr>>

\* try_all_configurations, lines 416-418: the operator prompt after each baud
SweepGate ==
    /\ prog = "comm" /\ pc = "sw_gate"
    /\ \E answer \in BOOLEAN :
          pc' = IF answer /\ cand < MaxBaudGroups * CONFIGS_PER_BAUD
                THEN "c_connect" ELSE "done"
    /\ UNCHANGED <<rvars, xvars, cfgv, profile, is_open, linev, i, response, success, ret, log,
                   trace, cand, histv, writeFails, drained>>

\* ------------------------------------------------ comm: run_test_sequence
CommRunStartNoCheck ==
    /\ prog = "comm" /\ pc = "c_run"
    /\ ret' = ret /\ pc' = "c_sync_send" /\ i' = 0
    /\ UNCHANGED <<rvars, xvars, cfgv, profile, is_open, linev, response, success, log, trace,
                   cand, histv, writeFails, drained>>

\* lines 275-277: without an open port the attempt returns False at once
CommRunStart ==
    /\ prog = "comm" /\ pc = "c_run"
    /\ IF ~is_open
       THEN ret' = "False" /\ pc' = "c_ret" /\ i' = i
       ELSE ret' = ret /\ pc' = "c_sync_send" /\ i' = 0
    /\ UNCHANGED <<rvars, xvars, cfgv, profile, is_open, linev, response, success, log, trace,
                   cand, histv, writeFails, drained>>

\* try_sync (lines 217-234): always send_command, result ignored
CommSyncSend ==
    /\ prog = "comm" /\ pc = "c_sync_send"
    /\ \/ CommSendOk("normal", SYNC_CMD, "sync")
       \/ CommSendFail("normal", SYNC_CMD, "sync")
    /\ pc' = "c_sync_recv"
    /\ UNCHANGED <<rvars, xvars, cfgv, profile, is_open, linev, i, response, success, ret, cand, readyAt,
                   openedAfterReady, drained>>

CommSyncRecvFatal ==
    /\ prog = "comm" /\ pc = "c_sync_recv"
    /\ \E r \in DeviceResponses("sync") :
          /\ CommReceive("sync", r)
          /\ IF r # <<>>
             THEN pc' = "c_clear" /\ i' = i /\ ret' = ret
             ELSE IF i + 1 = SYNC_ATTEMPTS
             THEN pc' = "c_ret" /\ i' = i /\ ret' = "False"
             ELSE pc' = "c_sync_send" /\ i' = i + 1 /\ ret' = ret
    /\ UNCHANGED <<rvars, xvars, cfgv, profile, is_open, linev, success, cand, histv,
                   writeFails, drained>>

CommSyncRecvNoStop ==
    /\ prog = "comm" /\ pc = "c_sync_recv"
    /\ \E r \in DeviceResponses("sync") :
          /\ CommReceive("sync", r)
          /\ IF i + 1 = SYNC_ATTEMPTS
             THEN pc' = "c_clear" /\ i' = i
             ELSE pc' = "c_sync_send" /\ i' = i + 1
    /\ UNCHANGED <<rvars, xvars, cfgv, profile, is_open, linev, success, ret, cand, histv,
                   writeFails, drained>>

CommSyncRecv ==
    /\ prog = "comm" /\ pc = "c_sync_recv"
    /\ \E r \in DeviceResponses("sync") :
          /\ CommReceive("sync", r)
          /\ IF r # <<>> \/ i + 1 = SYNC_ATTEMPTS
             THEN pc' = "c_clear" /\ i' = i
             ELSE pc' = "c_sync_send" /\ i' = i + 1
    /\ UNCHANGED <<rvars, xvars, cfgv, profile, is_open, linev, success, ret, cand, histv,
                   writeFails, drained>>

\* clear_buffers (lines 236-241)
CommClear ==
    /\ prog = "comm" /\ pc = "c_clear"
    /\ pc' = "c_init_send"
    /\ UNCHANGED <<rvars, xvars, cfgv, profile, is_open, linev, i, response, success, ret, log,
                   trace, cand, histv, writeFails, drained>>

\* lines 296-306
CommInitSend ==
    /\ prog = "comm" /\ pc = "c_init_send"
    /\ \/ /\ CommSendOk(send_style, INIT_CMD, "init")
          /\ success' = TRUE /\ pc' = "c_init_recv" /\ ret' = ret
       \/ /\ CommSendFail(send_style, INIT_CMD, "init")
          /\ success' = FALSE /\ pc' = "c_ret" /\ ret' = "False"
    /\ UNCHANGED <<rvars, xvars, cfgv, profile, is_open, linev, i, response, cand, readyAt,
                   openedAfterReady, drained>>

\* lines 309-311
CommInitRecv ==
    /\ prog = "comm" /\ pc = "c_init_recv"
    /\ \E r \in DeviceResponses("init") :
          /\ CommReceive("init", r)
          /\ IF r # <<>> THEN pc' = "c_hb_send" /\ i' = 0
                         ELSE pc' = "c_alt_send" /\ i' = i
    /\ UNCHANGED <<rvars, xvars, cfgv, profile, is_open, linev, success, ret, cand, histv,
                   writeFails, drained>>

\* lines 314-322
CommAltSend ==
    /\ prog = "comm" /\ pc = "c_alt_send"
    /\ \/ /\ CommSendOk(send_style, ALT_INIT_CMD, "alt_init")
          /\ success' = TRUE /\ pc' = "c_alt_recv" /\ ret' = ret
       \/ /\ CommSendFail(send_style, ALT_INIT_CMD, "alt_init")
          /\ success' = FALSE /\ pc' = "c_ret" /\ ret' = "False"
    /\ UNCHANGED <<rvars, xvars, cfgv, profile, is_open, linev, i, response, cand, readyAt,
                   openedAfterReady, drained>>

CommAltRecvSkipToggle ==
    /\ prog = "comm" /\ pc = "c_alt_recv"
    /\ \E r \in DeviceResponses("alt_init") :
          /\ CommReceive("alt_init", r)
          /\ IF r # <<>> THEN pc' = "c_hb_send" /\ i' = 0
                         ELSE pc' = "c_hbd_send" /\ i' = i
    /\ UNCHANGED <<rvars, xvars, cfgv, profile, is_open, linev, success, ret, cand, histv,
                   writeFails, drained>>

\* lines 325-331
CommAltRecv ==
    /\ prog = "comm" /\ pc = "c_alt_recv"
    /\ \E r \in DeviceResponses("alt_init") :
          /\ CommReceive("alt_init", r)
          /\ IF r # <<>> THEN pc' = "c_hb_send" /\ i' = 0
                         ELSE pc' = "c_tog_rts_hi" /\ i' = i
    /\ UNCHANGED <<rvars, xvars, cfgv, profile, is_open, linev, success, ret, cand, histv,
                   writeFails, drained>>

\* toggle_rts_dtr (lines 243-271), one action per assignment to a line
CommToggleRtsHigh ==
    /\ prog = "comm" /\ pc = "c_tog_rts_hi"
    /\ old_rts' = rts /\ old_dtr' = dtr
    /\ rts' = TRUE
    /\ trace' = Append(trace, Line("rts", TRUE))
    /\ pc' = "c_tog_rts_lo"
    /\ UNCHANGED <<rvars, xvars, cfgv, profile, is_open, dtr, i, response, success, ret, log,
                   cand, histv, writeFails, drained>>

CommToggleRtsLow ==
    /\ prog = "comm" /\ pc = "c_tog_rts_lo"
    /\ rts' = FALSE
    /\ trace' = Append(trace, Line("rts", FALSE))
    /\ pc' = "c_tog_rts_old"
    /\ UNCHANGED <<rvars, xvars, cfgv, profile, is_open, dtr, old_rts, old_dtr, i, response,
                   success, ret, log, cand, histv, writeFails, drained>>

CommToggleRtsLeftLow ==
    /\ prog = "comm" /\ pc = "c_tog_rts_old"
    /\ pc' = "c_tog_dtr_hi"
    /\ UNCHANGED <<rvars, xvars, cfgv, profile, is_open, rts, dtr, old_rts, old_dtr, i, response,
                   success, ret, log, trace, cand, histv, writeFails, drained>>

CommToggleRtsRestore ==
    /\ prog = "comm" /\ pc = "c_tog_rts_old"
    /\ rts' = old_rts
    /\ pc' = "c_tog_dtr_hi"
    /\ UNCHANGED <<rvars, xvars, cfgv, profile, is_open, dtr, old_rts, old_dtr, i, response,
                   success, ret, log, trace, cand, histv, writeFails, drained>>

CommToggleDtrHigh ==
    /\ prog = "comm" /\ pc = "c_tog_dtr_hi"
    /\ dtr' = TRUE
    /\ trace' = Append(trace, Line("dtr", TRUE))
    /\ pc' = "c_tog_dtr_lo"
    /\ UNCHANGED <<rvars, xvars, cfgv, profile, is_open, rts, old_rts, old_dtr, i, response,
                   success, ret, log, cand, histv, writeFails, drained>>

CommToggleDtrLow ==
    /\ prog = "comm" /\ pc = "c_tog_dtr_lo"
    /\ dtr' = FALSE
    /\ trace' = Append(trace, Line("dtr", FALSE))
    /\ pc' = "c_tog_dtr_old"
    /\ UNCHANGED <<rvars, xvars, cfgv, profile, is_open, rts, old_rts, old_dtr, i, response,
                   success, ret, log, cand, histv, writeFails, drained>>

\* dtr = old_dtr, then line 332 (sleep) and on to the direct heartbeat
CommToggleDtrRestore ==
    /\ prog = "comm" /\ pc = "c_tog_dtr_old"
    /\ dtr' = old_dtr
    /\ pc' = "c_hbd_send"
    /\ UNCHANGED <<rvars, xvars, cfgv, profile, is_open, rts, old_rts, old_dtr, i, response,
                   success, ret, log, trace, cand, histv, writeFails, drained>>

\* lines 334-339: the direct heartbeat, the send's result is not looked at
CommHbDirectSend ==
    /\ prog = "comm" /\ pc = "c_hbd_send"
    /\ \/ CommSendOk(send_style, HEARTBEAT_CMD, "hb_direct")
       \/ CommSendFail(send_style, HEARTBEAT_CMD, "hb_direct")
    /\ pc' = "c_hbd_recv"
    /\ UNCHANGED <<rvars, xvars, cfgv, profile, is_open, linev, i, response, success, ret, cand,
                   readyAt, openedAfterReady, drained>>

\* lines 341-345
CommHbDirectRecv ==
    /\ prog = "comm" /\ pc = "c_hbd_recv"
    /\ \E r \in DeviceResponses("hb_direct") :
          /\ CommReceive("hb_direct", r)
          /\ IF r # <<>> THEN pc' = "c_hb_send" /\ i' = 0 /\ ret' = ret
                         ELSE pc' = "c_ret" /\ i' = i /\ ret' = "False"
    /\ UNCHANGED <<rvars, xvars, cfgv, profile, is_open, linev, success, cand, histv,
                   writeFails, drained>>

\* lines 350-360: for i in range(3); a failed send goes on to the next i
CommHbSend ==
    /\ prog = "comm" /\ pc = "c_hb_send"
    /\ \/ /\ CommSendOk(send_style, HEARTBEAT_CMD, "heartbeat")
          /\ success' = TRUE /\ pc' = "c_hb_recv" /\ i' = i /\ ret' = ret
       \/ /\ CommSendFail(send_style, HEARTBEAT_CMD, "heartbeat")
          /\ success' = FALSE /\ i' = i + 1
          /\ IF i + 1 = HEARTBEATS THEN pc' = "c_ret" /\ ret' = "True"
                                   ELSE pc' = "c_hb_send" /\ ret' = ret
    /\ UNCHANGED <<rvars, xvars, cfgv, profile, is_open, linev, response, cand, readyAt,
                   openedAfterReady, drained>>

\* lines 362-375
CommHbRecv ==
    /\ prog = "comm" /\ pc = "c_hb_recv"
    /\ \E r \in DeviceResponses("heartbeat") : CommReceive("heartbeat", r)
    /\ i' = i + 1
    /\ IF i + 1 = HEARTBEATS THEN pc' = "c_ret" /\ ret' = "True"
                             ELSE pc' = "c_hb_send" /\ ret' = ret
    /\ UNCHANGED <<rvars, xvars, cfgv, profile, is_open, linev, success, cand, histv,
                   writeFails, drained>>

\* run_test_sequence has returned: main (line 442) ends, the sweep
\* (lines 394-395) drops the value and disconnects
CommReturn ==
    /\ prog = "comm" /\ pc = "c_ret"
    /\ pc' = IF mode = "sweep" THEN "sw_disc" ELSE "done"
    /\ readyAt' = IF mode = "sweep" /\ ret = "True" /\ readyAt = 0 THEN cand ELSE readyAt
    /\ UNCHANGED <<rvars, xvars, cfgv, profile, is_open, linev, i, response, success, ret, log,
                   trace, cand, openedAfterReady, sentAfterReady, writeFails, drained>>

\* ------------------------------------------------ simulator: send / read
\* send_command (lines 109-148): the TX entry is appended before the write
SimSendOk(command_type, what) ==
    /\ log' = Append(log, [dir |-> "TX", name |-> command_type, data |-> COMMANDS[command_type]])
    /\ trace' = Append(trace, Tx(what, TRUE))
    /\ NoteSent
    /\ UNCHANGED writeFails

SimSendFail(command_type, what) ==
    /\ writeFails < MaxWriteFails
    /\ writeFails' = writeFails + 1
    /\ log' = Append(log, [dir |-> "TX", name |-> command_type, data |-> COMMANDS[command_type]])
    /\ trace' = Append(trace, Tx(what, FALSE))
    /\ UNCHANGED sentAfterReady

\* compare_response (lines 222-260) as a function: its return value
compare_response(a, e) == IF a = e THEN "True" ELSE "False"

\* read_response (lines 150-220) over the bytes r the device delivers; the
\* comparison's result is dropped (lines 217-218)
SimRead(expected_type, what, r) ==
    LET st == SimLoop(SimStart, r) IN
    /\ response' = SimResult(st)
    /\ log' = log \o SimRxEntries(st, expected_type)
    /\ trace' = Append(trace, Rx(what, SimResult(st) # <<>>, r))
    /\ matched' = IF st.buffer # <<>> /\ expected_type \in DOMAIN EXPECTED_RESPONSES
                  THEN compare_response(st.buffer, EXPECTED_RESPONSES[expected_type])
                  ELSE "none"

\* main, lines 306-320: a new controller per configuration, then connect()
\* (lines 59-82)
SimConnect ==
    /\ prog = "sim" /\ pc = "s_connect"
    /\ cand' = cand + 1
    /\ log' = <<>> /\ trace' = <<>> /\ ret' = "none"
    /\ openedAfterReady' = (openedAfterReady \/ readyAt # 0)
    /\ \/ /\ is_open' = TRUE /\ pc' = "s_sync_send" /\ i' = 0
          /\ port_cfg' = Opened("arg", configs_to_try[cand'][1], configs_to_try[cand'][2], FALSE)
       \/ /\ is_open' = FALSE /\ i' = i /\ port_cfg' = port_cfg
          /\ pc' = IF cand + 1 = SIM_CONFIGS THEN "done" ELSE "s_connect"
    /\ UNCHANGED <<rvars, xvars, runv, profile, linev, response, success, readyAt,
                   sentAfterReady, writeFails, drained>>

\* connect, lines 84-92: the sync loop, the send's result is not looked at
SimSyncSend ==
    /\ prog = "sim" /\ pc = "s_sync_send"
    /\ \/ SimSendOk("sync", "sync")
       \/ SimSendFail("sync", "sync")
    /\ pc' = "s_sync_recv"
    /\ UNCHANGED <<rvars, xvars, cfgv, profile, is_open, linev, i, response, success, ret, cand,
                   readyAt, openedAfterReady, drained>>

SimSyncRecv ==
    /\ prog = "sim" /\ pc = "s_sync_recv"
    /\ \E r \in DeviceResponses("sync") :
          /\ SimRead("sync", "sync", r)
          /\ IF SimResult(SimLoop(SimStart, r)) # <<>> \/ i + 1 = SIM_SYNC_ATTEMPTS
             THEN pc' = "s_init_send" /\ i' = i
             ELSE pc' = "s_sync_send" /\ i' = i + 1
    /\ UNCHANGED <<rvars, cvars, lvars, first, cfgv, profile, is_open, linev, success, ret, cand, histv,
                   writeFails, drained>>

\* main, lines 323-327
SimInitSend ==
    /\ prog = "sim" /\ pc = "s_init_send"
    /\ \/ SimSendOk("initialization", "init") /\ pc' = "s_init_recv" /\ ret' = ret
       \/ SimSendFail("initialization", "init") /\ pc' = "s_disc" /\ ret' = "False"
    /\ UNCHANGED <<rvars, xvars, cfgv, profile, is_open, linev, i, response, success, cand,
                   readyAt, openedAfterReady, drained>>

SimInitRecvGated ==
    /\ prog = "sim" /\ pc = "s_init_recv"
    /\ \E r \in DeviceResponses("init") :
          /\ SimRead("initialization", "init", r)
          /\ IF SimResult(SimLoop(SimStart, r)) # <<>> /\ matched' # "False"
             THEN pc' = "s_hb_send" /\ i' = 0 /\ success' = TRUE /\ ret' = ret
             ELSE pc' = "s_disc" /\ i' = i /\ success' = success /\ ret' = "False"
    /\ UNCHANGED <<rvars, cvars, lvars, first, cfgv, profile, is_open, linev, cand, histv, writeFails, drained>>

\* main, lines 330-337
SimInitRecv ==
    /\ prog = "sim" /\ pc = "s_init_recv"
    /\ \E r \in DeviceResponses("init") :
          /\ SimRead("initialization", "init", r)
          /\ IF SimResult(SimLoop(SimStart, r)) # <<>>
             THEN pc' = "s_hb_send" /\ i' = 0 /\ success' = TRUE /\ ret' = ret
             ELSE pc' = "s_disc" /\ i' = i /\ success' = success /\ ret' = "False"
    /\ UNCHANGED <<rvars, cvars, lvars, first, cfgv, profile, is_open, linev, cand, histv, writeFails, drained>>

\* main, lines 338-343
SimHbSend ==
    /\ prog = "sim" /\ pc = "s_hb_send"
    /\ \/ /\ SimSendOk("heartbeat", "heartbeat")
          /\ pc' = "s_hb_recv" /\ success' = success
       \/ /\ SimSendFail("heartbeat", "heartbeat")
          /\ pc' = "s_hb_end" /\ success' = FALSE
    /\ UNCHANGED <<rvars, xvars, cfgv, profile, is_open, linev, i, response, ret, cand, readyAt,
                   openedAfterReady, drained>>

\* main, lines 345-351
SimHbRecv ==
    /\ prog = "sim" /\ pc = "s_hb_recv"
    /\ \E r \in DeviceResponses("heartbeat") :
          /\ SimRead("heartbeat", "heartbeat", r)
          /\ IF SimResult(SimLoop(SimStart, r)) = <<>>
             THEN pc' = "s_hb_end" /\ success' = FALSE /\ i' = i
             ELSE /\ success' = success /\ i' = i + 1
                  /\ pc' = IF i + 1 = HEARTBEATS THEN "s_hb_end" ELSE "s_hb_send"
    /\ UNCHANGED <<rvars, cvars, lvars, first, cfgv, profile, is_open, linev, ret, cand, histv, writeFails, drained>>

SimHbEndSuccess ==
    /\ prog = "sim" /\ pc = "s_hb_end"
    /\ ret' = "True"
    /\ readyAt' = IF readyAt = 0 THEN cand ELSE readyAt
    /\ pc' = "s_disc"
    /\ UNCHANGED <<rvars, xvars, cfgv, profile, is_open, linev, i, response, success, log, trace,
                   cand, openedAfterReady, sentAfterReady, writeFails, drained>>

\* main, lines 353-355
SimHbEnd ==
    /\ prog = "sim" /\ pc = "s_hb_end"
    /\ ret' = IF success THEN "True" ELSE "False"
    /\ readyAt' = IF success /\ readyAt = 0 THEN cand ELSE readyAt
    /\ pc' = "s_disc"
    /\ UNCHANGED <<rvars, xvars, cfgv, profile, is_open, linev, i, response, success, log, trace,
                   cand, openedAfterReady, sentAfterReady, writeFails, drained>>

SimDisconnectLeavesOpen ==
    /\ prog = "sim" /\ pc = "s_disc"
    /\ is_open' = is_open
    /\ pc' = IF ret = "True" \/ cand = SIM_CONFIGS THEN "done" ELSE "s_connect"
    /\ UNCHANGED <<rvars, xvars, cfgv, profile, linev, i, response, success, ret, log, trace,
                   cand, histv, writeFails, drained>>

\* main, lines 360-361: finally: controller.disconnect() (lines 103-107),
\* then break (success) or the next configuration
SimDisconnect ==
    /\ prog = "sim" /\ pc = "s_disc"
    /\ is_open' = FALSE
    /\ pc' = IF ret = "True" \/ cand = SIM_CONFIGS THEN "done" ELSE "s_connect"
    /\ UNCHANGED <<rvars, xvars, cfgv, profile, linev, i, response, success, ret, log, trace,
                   cand, histv, writeFails, drained>>

\* ------------------------------------------------------ protocol analyzer
\* A write of the analyzer: ser.write is not guarded, so a failure leaves
\* run_protocol_sequence as an exception that main catches (lines 382-387)
\* after the call to disconnect has been skipped.
ProtoWriteOk(what) ==
    /\ trace' = Append(trace, Tx(what, TRUE))
    /\ UNCHANGED <<writeFails, ret>>

ProtoWriteRaises(what) ==
    /\ writeFails < MaxWriteFails
    /\ writeFails' = writeFails + 1
    /\ trace' = Append(trace, Tx(what, FALSE))
    /\ ret' = "exception"

protoRest == <<cfgv, profile, log, cand, histv>>

\* main line 383 and connect (lines 34-69)
ProtoConnect ==
    /\ prog = "proto" /\ pc = "p_connect"
    /\ \/ /\ is_open' = TRUE /\ dtr' = FALSE /\ rts' = FALSE
          /\ port_cfg' = Opened("arg", "N", 1, FALSE)
          /\ pc' = "p_nul" /\ i' = 0
       \/ /\ UNCHANGED <<is_open, dtr, rts, i, port_cfg>>
          /\ pc' = "p_disc"
    /\ UNCHANGED <<rvars, xvars, runv, profile, log, cand, histv, old_rts, old_dtr, response,
                   success, ret, trace, writeFails, drained>>

\* execute_initialization_sequence, lines 189-197: a NUL byte, then whatever
\* came back is read and dropped
ProtoWakeup ==
    /\ prog = "proto" /\ pc = "p_nul"
    /\ \/ /\ \E r \in DeviceResponses("nul") :
                trace' = trace \o <<Tx("nul", TRUE), Rx("nul", r # <<>>, r)>>
          /\ i' = i + 1
          /\ pc' = IF i + 1 = WAKEUP_NULS THEN "p_init_send" ELSE "p_nul"
          /\ UNCHANGED <<writeFails, ret>>
       \/ ProtoWriteRaises("nul") /\ pc' = "done" /\ i' = i
    /\ UNCHANGED <<rvars, xvars, protoRest, is_open, linev, response, success, drained>>

\* lines 200-205; send_command_with_precise_timing (lines 98-134)
ProtoInitSend ==
    /\ prog = "proto" /\ pc = "p_init_send"
    /\ \/ ProtoWriteOk("init") /\ pc' = "p_init_recv"
       \/ ProtoWriteRaises("init") /\ pc' = "done"
    /\ UNCHANGED <<rvars, xvars, protoRest, is_open, linev, i, response, success, drained>>

ProtoReceive(what, r) ==
    /\ response' = r
    /\ trace' = Append(trace, Rx(what, r # <<>>, r))

ProtoInitRecv ==
    /\ prog = "proto" /\ pc = "p_init_recv"
    /\ \E r \in DeviceResponses("init") :
          /\ ProtoReceive("init", r)
          /\ IF r # <<>> THEN pc' = "p_hb_send" /\ i' = 0
                         ELSE pc' = "p_tog_rts_hi" /\ i' = i
    /\ UNCHANGED <<rvars, xvars, protoRest, is_open, linev, success, ret, writeFails, drained>>

\* lines 211-224: the line toggle, one action per assignment to a line
ProtoToggleRtsHigh ==
    /\ prog = "proto" /\ pc = "p_tog_rts_hi"
    /\ rts' = TRUE
    /\ trace' = Append(trace, Line("rts", TRUE))
    /\ pc' = "p_tog_rts_lo"
    /\ UNCHANGED <<rvars, xvars, protoRest, is_open, dtr, old_rts, old_dtr, i, response, success,
                   ret, writeFails, drained>>

ProtoToggleRtsStaysHigh ==
    /\ prog = "proto" /\ pc = "p_tog_rts_lo"
    /\ pc' = "p_tog_dtr_hi"
    /\ UNCHANGED <<rvars, xvars, protoRest, is_open, rts, dtr, old_rts, old_dtr, i, response,
                   success, ret, trace, writeFails, drained>>

ProtoToggleRtsLow ==
    /\ prog = "proto" /\ pc = "p_tog_rts_lo"
    /\ rts' = FALSE
    /\ trace' = Append(trace, Line("rts", FALSE))
    /\ pc' = "p_tog_dtr_hi"
    /\ UNCHANGED <<rvars, xvars, protoRest, is_open, dtr, old_rts, old_dtr, i, response, success,
                   ret, writeFails, drained>>

ProtoToggleDtrHigh ==
    /\ prog = "proto" /\ pc = "p_tog_dtr_hi"
    /\ dtr' = TRUE
    /\ trace' = Append(trace, Line("dtr", TRUE))
    /\ pc' = "p_tog_dtr_lo"
    /\ UNCHANGED <<rvars, xvars, protoRest, is_open, rts, old_rts, old_dtr, i, response, success,
                   ret, writeFails, drained>>

ProtoToggleDtrLow ==
    /\ prog = "proto" /\ pc = "p_tog_dtr_lo"
    /\ dtr' = FALSE
    /\ trace' = Append(trace, Line("dtr", FALSE))
    /\ pc' = "p_start"
    /\ UNCHANGED <<rvars, xvars, protoRest, is_open, rts, old_rts, old_dtr, i, response, success,
                   ret, writeFails, drained>>

\* lines 226-234: the start marker after the toggle, its answer read and dropped
ProtoStartMarker ==
    /\ prog = "proto" /\ pc = "p_start"
    /\ \/ /\ \E r \in DeviceResponses("start") :
                trace' = trace \o <<Tx("start", TRUE), Rx("start", r # <<>>, r)>>
          /\ pc' = "p_resend"
          /\ UNCHANGED <<writeFails, ret>>
       \/ ProtoWriteRaises("start") /\ pc' = "done"
    /\ UNCHANGED <<rvars, xvars, protoRest, is_open, linev, i, response, success, drained>>

\* lines 236-242
ProtoResend ==
    /\ prog = "proto" /\ pc = "p_resend"
    /\ \/ ProtoWriteOk("init_resend") /\ pc' = "p_resend_recv"
       \/ ProtoWriteRaises("init_resend") /\ pc' = "done"
    /\ UNCHANGED <<rvars, xvars, protoRest, is_open, linev, i, response, success, drained>>

ProtoResendRecv ==
    /\ prog = "proto" /\ pc = "p_resend_recv"
    /\ \E r \in DeviceResponses("init_resend") :
          /\ ProtoReceive("init_resend", r)
          /\ IF r # <<>> THEN pc' = "p_hb_send" /\ i' = 0
                         ELSE pc' = "p_alt_send" /\ i' = i
    /\ UNCHANGED <<rvars, xvars, protoRest, is_open, linev, success, ret, writeFails, drained>>

\* lines 245-254
ProtoAltSend ==
    /\ prog = "proto" /\ pc = "p_alt_send"
    /\ \/ ProtoWriteOk("alt_init") /\ pc' = "p_alt_recv"
       \/ ProtoWriteRaises("alt_init") /\ pc' = "done"
    /\ UNCHANGED <<rvars, xvars, protoRest, is_open, linev, i, response, success, drained>>

ProtoAltRecv ==
    /\ prog = "proto" /\ pc = "p_alt_recv"
    /\ \E r \in DeviceResponses("alt_init") :
          /\ ProtoReceive("alt_init", r)
          /\ IF r # <<>> THEN pc' = "p_hb_send" /\ i' = 0
                         ELSE pc' = "p_slow" /\ i' = 0
    /\ UNCHANGED <<rvars, xvars, protoRest, is_open, linev, success, ret, writeFails, drained>>

\* lines 261-271: one byte of the slow transmission and the check after it
ProtoSlowByte ==
    /\ prog = "proto" /\ pc = "p_slow"
    /\ \/ /\ \E r \in DeviceResponses("init_slow") :
                /\ trace' = trace \o <<Tx("init_slow", TRUE), Rx("init_slow", r # <<>>, r)>>
                /\ IF r # <<>>
                   THEN pc' = "p_slow_drain" /\ i' = i
                   ELSE /\ i' = i + 1
                        /\ pc' = IF i + 1 = Len(INIT_CMD) THEN "p_slow_recv" ELSE "p_slow"
          /\ drained' = 0
          /\ UNCHANGED <<writeFails, ret>>
       \/ ProtoWriteRaises("init_slow") /\ pc' = "done" /\ i' = i /\ drained' = drained
    /\ UNCHANGED <<rvars, xvars, protoRest, is_open, linev, response, success>>

\* lines 273-281: while in_waiting > 0: read more; it ends when the device
\* pauses, and has no deadline
ProtoSlowDrain ==
    /\ prog = "proto" /\ pc = "p_slow_drain"
    /\ \/ /\ drained < MaxDrain
          /\ drained' = drained + 1
          /\ UNCHANGED <<pc, i>>
       \/ /\ pc' = "p_hb_send" /\ i' = 0
          /\ drained' = drained
    /\ UNCHANGED <<rvars, xvars, protoRest, is_open, linev, response, success, ret, trace,
                   writeFails>>

\* lines 283-288
ProtoSlowRecv ==
    /\ prog = "proto" /\ pc = "p_slow_recv"
    /\ \E r \in DeviceResponses("init_slow") :
          /\ ProtoReceive("init_slow", r)
          /\ IF r # <<>> THEN pc' = "p_hb_send" /\ i' = 0
                         ELSE pc' = "p_flood" /\ i' = 0
    /\ UNCHANGED <<rvars, xvars, protoRest, is_open, linev, success, ret, writeFails, drained>>

\* lines 297-313: ten sync characters, each followed by a check
ProtoFlood ==
    /\ prog = "proto" /\ pc = "p_flood"
    /\ \/ /\ \E r \in DeviceResponses("sync_flood") :
                /\ trace' = trace \o <<Tx("sync_flood", TRUE), Rx("sync_flood", r # <<>>, r)>>
                /\ IF r # <<>>
                   THEN pc' = "p_hb_send" /\ i' = 0
                   ELSE /\ i' = i + 1
                        /\ pc' = IF i + 1 = SYNC_FLOOD THEN "p_init_failed" ELSE "p_flood"
          /\ UNCHANGED <<writeFails, ret>>
       \/ ProtoWriteRaises("sync_flood") /\ pc' = "done" /\ i' = i
    /\ UNCHANGED <<rvars, xvars, protoRest, is_open, linev, response, success, drained>>

ProtoInitFailedProbes ==
    /\ prog = "proto" /\ pc = "p_init_failed"
    /\ ret' = "False"
    /\ pc' = "p_disc"
    /\ trace' = Append(trace, Tx("start", TRUE))
    /\ UNCHANGED <<rvars, xvars, protoRest, is_open, linev, i, response, success,
                   writeFails, drained>>

\* run_protocol_sequence, lines 343-356
ProtoInitFailed ==
    /\ prog = "proto" /\ pc = "p_init_failed"
    /\ ret' = "False"
    /\ pc' = "p_disc"
    /\ UNCHANGED <<rvars, xvars, protoRest, is_open, linev, i, response, success, trace,
                   writeFails, drained>>

\* send_heartbeat (lines 315-330) inside the loop of lines 361-364
ProtoHbSend ==
    /\ prog = "proto" /\ pc = "p_hb_send"
    /\ \/ ProtoWriteOk("heartbeat") /\ pc' = "p_hb_recv"
       \/ ProtoWriteRaises("heartbeat") /\ pc' = "done"
    /\ UNCHANGED <<rvars, xvars, protoRest, is_open, linev, i, response, success, drained>>

ProtoHbRecv ==
    /\ prog = "proto" /\ pc = "p_hb_recv"
    /\ \E r \in DeviceResponses("heartbeat") : ProtoReceive("heartbeat", r)
    /\ i' = i + 1
    /\ IF i + 1 = HEARTBEATS THEN pc' = "p_disc" /\ ret' = "True"
                             ELSE pc' = "p_hb_send" /\ ret' = ret
    /\ UNCHANGED <<rvars, xvars, protoRest, is_open, linev, success, writeFails, drained>>

\* main line 385 and disconnect (lines 71-83)
ProtoDisconnect ==
    /\ prog = "proto" /\ pc = "p_disc"
    /\ IF is_open
       THEN dtr' = TRUE /\ rts' = TRUE /\ is_open' = FALSE
       ELSE UNCHANGED <<dtr, rts, is_open>>
    /\ pc' = "done"
    /\ UNCHANGED <<rvars, xvars, protoRest, old_rts, old_dtr, i, response, success, ret, trace,
                   writeFails, drained>>

\* --------------------------------------------------- the receive loops
\* ticks: 10 ms for receive_response, 1 ms for read_response
IDLE_TICKS == 1
GRACE_TICKS == 5
\* a sleep may return late by up to this many ticks
MaxOvershoot == 1
\* streams up to this length arrive in pieces as well as in one burst
MaxSplitLen == 4

Repeat(b, n) == [j \in 1..n |-> b]
Framed(p) == <<START>> \o p \o <<END>>

ShortPayloads == {<<>>, <<128>>, <<92>>, <<128, 92>>, <<92, 92>>, <<92, 128>>}
LongPayloads == {Repeat(128, n) : n \in (max_bytes - 3)..(max_bytes + 1)}
                  \cup {Repeat(92, max_bytes - 2)}

Streams ==
    {<<>>, <<128>>, <<128, 124>>, <<60, 128>>, <<128, 60, 128, 124>>,
     <<60, 128, 124, 128>>, <<60, 60, 124>>, <<124, 60, 124>>}
    \cup {Framed(p) : p \in ShortPayloads \cup LongPayloads}

\* while (time.time() - start_time) < timeout   (comm 186, protocol 147)
CommLoopCondInclusive(e, t) == e <= t
CommLoopCond(e, t) == e < t

\* if expected_end and expected_end in response and len(response) >= min_bytes
\* (comm 193, protocol 155)
CommEndSeenNever(buf, exp, minb) == FALSE
CommEndSeenAnyLength(buf, exp, minb) == exp /\ (\E j \in 1..Len(buf) : buf[j] = END)
CommEndSeen(buf, exp, minb) ==
    exp /\ (\E j \in 1..Len(buf) : buf[j] = END) /\ Len(buf) >= minb

\* while time.time() - start_time < timeout and len(buffer) < max_bytes (sim 169)
SimLoopCondInclusive(e, t, s) == e <= t /\ SimMayRead(s)
SimLoopCond(e, t, s) == e < t /\ SimMayRead(s)

Slept(d) == {d + o : o \in 0..MaxOvershoot}

\* the device puts the next bytes of its stream on the line
DeviceDeliver ==
    /\ rpc \in {"loop", "grace"}
    /\ dev # <<>>
    /\ \E n \in {Len(dev)} \cup (IF Len(stream) <= MaxSplitLen THEN {1} ELSE {}) :
          /\ inq' = inq \o SubSeq(dev, 1, n)
          /\ dev' = SubSeq(dev, n + 1, Len(dev))
          /\ burst' = (dev = stream /\ n = Len(stream))
    /\ UNCHANGED <<hvars, xvars, rprog, timeout, expected_end, min_bytes, stream, resp,
                   rst, elapsed, rpc, lastPoll, readAt, exitReason>>

\* receive_response, lines 186-199 (protocol 147-163): one pass that finds bytes
CommPollRead ==
    /\ rprog = "comm" /\ rpc = "loop"
    /\ CommLoopCond(elapsed, timeout)
    /\ inq # <<>>
    /\ lastPoll' = elapsed
    /\ readAt' = IF readAt = -1 THEN elapsed ELSE readAt
    /\ resp' = resp \o inq
    /\ inq' = <<>>
    /\ IF CommEndSeen(resp \o inq, expected_end, min_bytes)
       THEN rpc' = "grace" /\ elapsed' = elapsed
       ELSE rpc' = "loop" /\ elapsed' \in Slept(elapsed + IDLE_TICKS)
    /\ UNCHANGED <<hvars, xvars, rprog, timeout, expected_end, min_bytes, stream, burst, dev, rst,
                   exitReason>>

\* one pass that finds nothing: line 187 is false, then the sleep of line 202
CommPollIdle ==
    /\ rprog = "comm" /\ rpc = "loop"
    /\ CommLoopCond(elapsed, timeout)
    /\ inq = <<>>
    /\ lastPoll' = elapsed
    /\ elapsed' \in Slept(elapsed + IDLE_TICKS)
    /\ UNCHANGED <<hvars, xvars, rprog, timeout, expected_end, min_bytes, stream, burst, dev, inq,
                   resp, rst, rpc, readAt, exitReason>>

\* line 195: the grace sleep after the end marker was seen
CommGrace ==
    /\ rprog = "comm" /\ rpc = "grace"
    /\ elapsed' \in Slept(elapsed + GRACE_TICKS)
    /\ rpc' = "final"
    /\ UNCHANGED <<hvars, xvars, rprog, timeout, expected_end, min_bytes, stream, burst, dev, inq,
                   resp, rst, lastPoll, readAt, exitReason>>

CommFinalDrainDiscards ==
    /\ rprog = "comm" /\ rpc = "final"
    /\ resp' = resp
    /\ inq' = <<>>
    /\ rpc' = "done" /\ exitReason' = "marker"
    /\ UNCHANGED <<hvars, xvars, rprog, timeout, expected_end, min_bytes, stream, burst, dev, rst,
                   elapsed, lastPoll, readAt>>

\* lines 197-199: the one more drain, then break
CommFinalDrain ==
    /\ rprog = "comm" /\ rpc = "final"
    /\ resp' = resp \o inq
    /\ inq' = <<>>
    /\ rpc' = "done" /\ exitReason' = "marker"
    /\ UNCHANGED <<hvars, xvars, rprog, timeout, expected_end, min_bytes, stream, burst, dev, rst,
                   elapsed, lastPoll, readAt>>

\* the loop condition is false: lines 204-215
CommDeadline ==
    /\ rprog = "comm" /\ rpc = "loop"
    /\ ~CommLoopCond(elapsed, timeout)
    /\ rpc' = "done" /\ exitReason' = "deadline"
    /\ UNCHANGED <<hvars, xvars, rprog, timeout, expected_end, min_bytes, stream, burst, dev, inq,
                   resp, rst, elapsed, lastPoll, readAt>>

\* read_response, lines 169-185: one pass that reads one byte
SimPollRead ==
    /\ rprog = "sim" /\ rpc = "loop"
    /\ SimLoopCond(elapsed, timeout, rst)
    /\ inq # <<>>
    /\ lastPoll' = elapsed
    /\ readAt' = IF readAt = -1 THEN elapsed ELSE readAt
    /\ rst' = SimStep(rst, Head(inq))
    /\ inq' = Tail(inq)
    /\ elapsed' \in Slept(elapsed)
    /\ UNCHANGED <<hvars, xvars, rprog, timeout, expected_end, min_bytes, stream, burst, dev,
                   resp, rpc, exitReason>>

\* lines 186-188: nothing waiting, sleep
SimPollIdle ==
    /\ rprog = "sim" /\ rpc = "loop"
    /\ SimLoopCond(elapsed, timeout, rst)
    /\ inq = <<>>
    /\ lastPoll' = elapsed
    /\ elapsed' \in Slept(elapsed + IDLE_TICKS)
    /\ UNCHANGED <<hvars, xvars, rprog, timeout, expected_end, min_bytes, stream, burst, dev, inq,
                   resp, rst, rpc, readAt, exitReason>>

\* the loop is left (break, deadline or max_bytes): lines 190-220
SimReadReturn ==
    /\ rprog = "sim" /\ rpc = "loop"
    /\ ~SimLoopCond(elapsed, timeout, rst)
    /\ resp' = SimResult(rst)
    /\ rpc' = "done"
    /\ exitReason' = IF rst.stop THEN "marker"
                     ELSE IF Len(rst.buffer) >= max_bytes THEN "max_bytes"
                     ELSE "deadline"
    /\ UNCHANGED <<hvars, xvars, rprog, timeout, expected_end, min_bytes, stream, burst, dev, inq,
                   rst, elapsed, lastPoll, readAt>>

RecvIdle ==
    /\ rprog = "none" /\ timeout = 0 /\ expected_end = FALSE /\ min_bytes = 1
    /\ stream = <<>> /\ burst = FALSE
    /\ dev = <<>> /\ inq = <<>> /\ resp = <<>> /\ rst = SimStart
    /\ elapsed = 0 /\ rpc = "idle" /\ lastPoll = -1 /\ readAt = -1
    /\ exitReason = "none"

HandshakeIdle ==
    /\ prog = "none" /\ mode = "single" /\ send_style = "normal" /\ profile = "free"
    /\ pc = "idle" /\ is_open = FALSE /\ rts = FALSE /\ dtr = FALSE
    /\ old_rts = FALSE /\ old_dtr = FALSE
    /\ i = 0 /\ response = <<>> /\ success = FALSE /\ ret = "none"
    /\ log = <<>> /\ trace = <<>> /\ cand = 0 /\ readyAt = 0
    /\ openedAfterReady = FALSE /\ sentAfterReady = FALSE
    /\ writeFails = 0 /\ drained = 0 /\ port_cfg = NoPort

\* ------------------------------------------------------ compare_response
\* longest varying part of a compared sequence
MaxCmpLen == 2

RECURSIVE SeqsUpTo(_, _)
SeqsUpTo(S, n) ==
    IF n = 0 THEN {<<>>}
    ELSE LET shorter == SeqsUpTo(S, n - 1)
         IN  shorter \cup {Append(q, b) : q \in shorter, b \in S}

\* responses as read_response hands them over: from the start marker on
CmpInputs ==
    {<<>>} \cup {<<START>> \o q \o t : q \in SeqsUpTo({128, 129}, MaxCmpLen),
                                     t \in {<<>>, <<ESC>>}}

Min(a, b) == IF a < b THEN a ELSE b

CmpIdle ==
    /\ actual = <<>> /\ expected = <<>> /\ differences = <<>>
    /\ length_mismatch = FALSE /\ cmp_i = 0 /\ cmp_pc = "idle" /\ cmp_ret = "none"

\* lines 233-240: equal sequences return True at once
CompareEqual ==
    /\ cmp_pc = "start"
    /\ IF actual = expected
       THEN cmp_pc' = "done" /\ cmp_ret' = "True"
       ELSE cmp_pc' = "length" /\ cmp_ret' = cmp_ret
    /\ UNCHANGED <<cmpRest, actual, expected, differences, length_mismatch, cmp_i>>

CompareLengthShortCircuit ==
    /\ cmp_pc = "length"
    /\ length_mismatch' = (Len(actual) # Len(expected))
    /\ differences' = <<>> /\ cmp_i' = 0
    /\ IF Len(actual) # Len(expected)
       THEN cmp_pc' = "done" /\ cmp_ret' = "False"
       ELSE cmp_pc' = "loop" /\ cmp_ret' = cmp_ret
    /\ UNCHANGED <<cmpRest, actual, expected>>

\* lines 242-249: the length warning, then min_len and the empty list
CompareLength ==
    /\ cmp_pc = "length"
    /\ length_mismatch' = (Len(actual) # Len(expected))
    /\ differences' = <<>> /\ cmp_i' = 0
    /\ cmp_pc' = "loop"
    /\ UNCHANGED <<cmpRest, actual, expected, cmp_ret>>

\* lines 251-253: for i in range(min_len)
CompareStep ==
    /\ cmp_pc = "loop"
    /\ cmp_i < Min(Len(actual), Len(expected))
    /\ differences' = IF actual[cmp_i + 1] # expected[cmp_i + 1]
                      THEN Append(differences, cmp_i) ELSE differences
    /\ cmp_i' = cmp_i + 1
    /\ UNCHANGED <<cmpRest, actual, expected, length_mismatch, cmp_pc, cmp_ret>>

\* lines 255-260: the positions are logged, the result is False
CompareReturn ==
    /\ cmp_pc = "loop"
    /\ cmp_i = Min(Len(actual), Len(expected))
    /\ cmp_pc' = "done" /\ cmp_ret' = "False"
    /\ UNCHANGED <<cmpRest, actual, expected, differences, length_mismatch, cmp_i>>

NoRun == [trace |-> <<>>, ret |-> "none", opened |-> FALSE, as_expected |-> FALSE]

TwinIdle == matched = "none" /\ first = NoRun

SendIdle ==
    /\ sfun = "none" /\ sname = "none" /\ sidx = 0 /\ wire = <<>> /\ slog = <<>>
    /\ delayed = 0 /\ sfailed = FALSE /\ spc = "idle" /\ sret = "none"

MonIdle ==
    /\ running = FALSE /\ mon_pc = "none" /\ op_pc = "idle" /\ port_open = FALSE
    /\ rxbuf = <<>> /\ nread = 0 /\ arrived = <<>> /\ surfaced = <<>> /\ wrote = FALSE

DrainIdle == in_waiting = FALSE

PaceIdle == pauses = <<>>

LaterIdle == SendIdle /\ MonIdle /\ DrainIdle /\ PaceIdle

\* the parts of the state a specification leaves at rest
OtherIdle == CmpIdle /\ TwinIdle /\ LaterIdle

\* a call compare_response(actual, expected)
CmpInit ==
    /\ HandshakeIdle /\ RecvIdle /\ TwinIdle /\ LaterIdle
    /\ actual \in CmpInputs /\ expected \in CmpInputs
    /\ differences = <<>> /\ length_mismatch = FALSE
    /\ cmp_i = 0 /\ cmp_pc = "start" /\ cmp_ret = "none"

CmpNext == CompareEqual \/ CompareLength \/ CompareStep \/ CompareReturn

CmpSpec == CmpInit /\ [][CmpNext]_vars

\* A call of receive_response(timeout, min_bytes, expected_end) or of
\* read_response(timeout) on a port whose device sends `stream`; a part of
\* the stream may be waiting in the port already.
RecvInit ==
    /\ HandshakeIdle /\ OtherIdle
    /\ \/ /\ rprog = "comm"
          /\ timeout \in {2, 8}
          /\ expected_end \in BOOLEAN
          /\ min_bytes \in {1, 4}
       \/ /\ rprog = "sim"
          /\ timeout \in {2, 8}
          /\ expected_end = TRUE
          /\ min_bytes = 1
    /\ stream \in Streams
    /\ \/ dev = stream /\ inq = <<>> /\ burst = FALSE
       \/ dev = <<>> /\ inq = stream /\ stream # <<>> /\ burst = TRUE
    /\ resp = <<>> /\ rst = SimStart
    /\ elapsed = 0 /\ rpc = "loop" /\ lastPoll = -1 /\ readAt = -1
    /\ exitReason = "none"

RecvNext ==
    \/ DeviceDeliver
    \/ CommPollRead \/ CommPollIdle \/ CommGrace \/ CommFinalDrain \/ CommDeadline
    \/ SimPollRead \/ SimPollIdle \/ SimReadReturn

RecvSpec == RecvInit /\ [][RecvNext]_vars

\* ------------------------------------------------------------------ Spec
Init ==
    /\ \/ /\ prog = "comm" /\ pc = "c_connect"
          /\ mode \in {"single", "sweep"}
          /\ send_style \in {"normal", "byte_by_byte"}
       \/ /\ prog = "sim" /\ pc = "s_connect"
          /\ mode = "sweep" /\ send_style = "normal"
       \/ /\ prog = "proto" /\ pc = "p_connect"
          /\ mode = "single" /\ send_style = "byte_by_byte"
    /\ profile = "free"
    /\ is_open = FALSE /\ rts = FALSE /\ dtr = FALSE
    /\ old_rts = FALSE /\ old_dtr = FALSE
    /\ i = 0 /\ response = <<>> /\ success = FALSE /\ ret = "none"
    /\ log = <<>> /\ trace = <<>>
    /\ cand = 0 /\ readyAt = 0
    /\ openedAfterReady = FALSE /\ sentAfterReady = FALSE
    /\ writeFails = 0 /\ drained = 0 /\ port_cfg = NoPort
    /\ RecvIdle /\ OtherIdle

Next ==
    \/ CommConnect \/ CommDisconnect \/ SweepGate \/ CommRunStart
    \/ CommSyncSend \/ CommSyncRecv \/ CommClear
    \/ CommInitSend \/ CommInitRecv \/ CommAltSend \/ CommAltRecv
    \/ CommToggleRtsHigh \/ CommToggleRtsLow \/ CommToggleRtsRestore
    \/ CommToggleDtrHigh \/ CommToggleDtrLow \/ CommToggleDtrRestore
    \/ CommHbDirectSend \/ CommHbDirectRecv \/ CommHbSend \/ CommHbRecv
    \/ CommReturn
    \/ SimConnect \/ SimSyncSend \/ SimSyncRecv \/ SimInitSend \/ SimInitRecv
    \/ SimHbSend \/ SimHbRecv \/ SimHbEnd \/ SimDisconnect
    \/ ProtoConnect \/ ProtoWakeup \/ ProtoInitSend \/ ProtoInitRecv
    \/ ProtoToggleRtsHigh \/ ProtoToggleRtsLow \/ ProtoToggleDtrHigh
    \/ ProtoToggleDtrLow \/ ProtoStartMarker \/ ProtoResend \/ ProtoResendRecv
    \/ ProtoAltSend \/ ProtoAltRecv \/ ProtoSlowByte \/ ProtoSlowDrain
    \/ ProtoSlowRecv \/ ProtoFlood \/ ProtoInitFailed \/ ProtoHbSend
    \/ ProtoHbRecv \/ ProtoDisconnect

Spec == Init /\ [][Next]_vars

\* ------------------------------------------------- what a sweep keeps
\* What the sweep's own variables say about candidate c once it has ended:
\* try_all_configurations assigns the values of connect and
\* run_test_sequence to nothing (pantilt_comm.py 392-413); the simulator's
\* main has the one flag `success`, of the candidate in hand (337-355).
Held(c) ==
    IF prog = "sim" /\ c = cand
    THEN (IF success THEN "True" ELSE "False")
    ELSE "none"

\* ------------------------------------------------- operator interrupts
\* Ctrl-C in pantilt_comm: main catches KeyboardInterrupt (lines 445-446);
\* the connector is then released and its finalizer (48-52) runs disconnect
\* (97-114), which drives both lines high and closes an open port.
CommInterrupt ==
    /\ prog = "comm" /\ pc \notin {"done", "interrupted"}
    /\ IF is_open
       THEN dtr' = TRUE /\ rts' = TRUE /\ is_open' = FALSE
       ELSE UNCHANGED <<dtr, rts, is_open>>
    /\ pc' = "interrupted"
    /\ UNCHANGED <<rvars, xvars, cfgv, profile, i, response, success, ret, log, trace, cand,
                   histv, writeFails, drained, old_rts, old_dtr>>

\* Ctrl-C in pantilt_simulator: inside main's try the loop is left and
\* finally runs disconnect (357-361), which only closes (103-107); in
\* connect (called at 318, outside the try) the interrupt leaves main.
SimInterrupt ==
    /\ prog = "sim" /\ pc \notin {"done", "interrupted"}
    /\ is_open' = IF pc \in {"s_init_send", "s_init_recv", "s_hb_send", "s_hb_recv", "s_hb_end"}
                  THEN FALSE ELSE is_open
    /\ pc' = "interrupted"
    /\ UNCHANGED <<rvars, xvars, cfgv, profile, linev, i, response, success, ret, log, trace,
                   cand, histv, writeFails, drained>>

\* Ctrl-C in pantilt_protocol: main catches Exception only (382-387), so
\* KeyboardInterrupt leaves main and the call of disconnect is skipped; the
\* class has no finalizer.
ProtoInterrupt ==
    /\ prog = "proto" /\ pc \notin {"done", "interrupted"}
    /\ pc' = "interrupted"
    /\ UNCHANGED <<rvars, xvars, protoRest, is_open, linev, i, response, success, ret, trace,
                   writeFails, drained>>

IntNext == Next \/ CommInterrupt \/ SimInterrupt \/ ProtoInterrupt

\* the handshake tools with an operator who may interrupt them
IntSpec == Init /\ [][IntNext]_vars

\* ------------------------------------- the drain loop, pass by pass
drainRest == <<rvars, cvars, twvars, svars, mvars, pvars>>

\* the device goes on sending while the loop sleeps (lines 274, 278)
DeviceStreams ==
    /\ prog = "proto" /\ pc = "p_slow_drain" /\ ~in_waiting
    /\ in_waiting' = TRUE
    /\ UNCHANGED <<hvars, drainRest>>

\* lines 276-278: a pass of `while self.ser.in_waiting > 0`: what waits is
\* read, then the loop sleeps 50 ms
ProtoDrainRead ==
    /\ prog = "proto" /\ pc = "p_slow_drain" /\ in_waiting
    /\ in_waiting' = FALSE
    /\ UNCHANGED <<hvars, drainRest>>

\* lines 276, 280-281: nothing waits, the loop is left
ProtoDrainExit ==
    /\ prog = "proto" /\ pc = "p_slow_drain" /\ ~in_waiting
    /\ pc' = "p_hb_send" /\ i' = 0
    /\ UNCHANGED <<drainRest, dvars, protoRest, is_open, linev, response, success, ret, trace,
                   writeFails, drained>>

\* the protocol analyzer with its drain loop taken pass by pass
DrainNext ==
    \/ ProtoConnect \/ ProtoWakeup \/ ProtoInitSend \/ ProtoInitRecv
    \/ ProtoToggleRtsHigh \/ ProtoToggleRtsLow \/ ProtoToggleDtrHigh
    \/ ProtoToggleDtrLow \/ ProtoStartMarker \/ ProtoResend \/ ProtoResendRecv
    \/ ProtoAltSend \/ ProtoAltRecv \/ ProtoSlowByte
    \/ DeviceStreams \/ ProtoDrainRead \/ ProtoDrainExit
    \/ ProtoSlowRecv \/ ProtoFlood \/ ProtoInitFailed \/ ProtoHbSend
    \/ ProtoHbRecv \/ ProtoDisconnect

DrainInit == Init /\ prog = "proto"

\* the process is scheduled as long as it can take a step
DrainSpec == DrainInit /\ [][DrainNext]_vars /\ WF_vars(DrainNext)

\* ------------------------------------------- two runs of the simulator
\* what a run did and met, without the content of what it received
Shape(t) == [j \in 1..Len(t) |-> <<t[j].k, t[j].what, t[j].ok>>]

\* every response of the run was one compare_response finds equal
AsExpected(t) ==
    /\ \E j \in 1..Len(t) : t[j].k = "rx" /\ t[j].ok
    /\ \A j \in 1..Len(t) : (t[j].k = "rx" /\ t[j].ok) => t[j].data = Expected(t[j].what)

\* the second run meets what the first met, content apart: the port opens
\* or not, a write fails or not, a receive returns bytes or none
SameOpen == first = NoRun \/ is_open' = first.opened
SameInputs ==
    first = NoRun \/
    LET t == Shape(trace') IN
    \A j \in 1..Min(Len(t), Len(first.trace)) :
        (t[j][1] = first.trace[j][1] /\ t[j][2] = first.trace[j][2])
            => t[j][3] = first.trace[j][3]

\* the first candidate of the simulator's sweep, run on its own
TwinInit ==
    /\ prog = "sim" /\ pc = "s_connect"
    /\ mode = "sweep" /\ send_style = "normal"
    /\ profile = "free"
    /\ is_open = FALSE /\ rts = FALSE /\ dtr = FALSE
    /\ old_rts = FALSE /\ old_dtr = FALSE
    /\ i = 0 /\ response = <<>> /\ success = FALSE /\ ret = "none"
    /\ log = <<>> /\ trace = <<>>
    /\ cand = 0 /\ readyAt = 0
    /\ openedAfterReady = FALSE /\ sentAfterReady = FALSE
    /\ writeFails = 0 /\ drained = 0 /\ port_cfg = NoPort
    /\ RecvIdle /\ CmpIdle /\ TwinIdle /\ LaterIdle

\* the first candidate's attempt is over
RunOver == prog = "sim" /\ cand = 1 /\ pc \in {"s_connect", "done"}

\* the tool is started a second time; what the first run did is kept
Rerun ==
    /\ RunOver /\ first = NoRun
    /\ first' = [trace |-> Shape(trace), ret |-> ret, opened |-> trace # <<>>,
                 as_expected |-> AsExpected(trace)]
    /\ pc' = "s_connect" /\ cand' = 0 /\ is_open' = FALSE
    /\ i' = 0 /\ response' = <<>> /\ success' = FALSE /\ ret' = "none"
    /\ log' = <<>> /\ trace' = <<>> /\ readyAt' = 0
    /\ openedAfterReady' = FALSE /\ sentAfterReady' = FALSE
    /\ writeFails' = 0 /\ matched' = "none"
    /\ UNCHANGED <<rvars, cvars, lvars, cfgv, profile, linev, drained>>

TwinNext ==
    \/ SimConnect /\ cand = 0 /\ SameOpen
    \/ SimSyncSend /\ SameInputs
    \/ SimSyncRecv /\ SameInputs
    \/ SimInitSend /\ SameInputs
    \/ SimInitRecv /\ SameInputs
    \/ SimHbSend /\ SameInputs
    \/ SimHbRecv /\ SameInputs
    \/ SimHbEnd
    \/ SimDisconnect
    \/ Rerun

TwinSpec == TwinInit /\ [][TwinNext]_vars

\* ------------------------------------------------- the send functions
\* the commands of pantilt_comm's main (lines 283-350) by name
CommCommands == [sync |-> SYNC_CMD, init |-> INIT_CMD, alt_init |-> ALT_INIT_CMD,
                 heartbeat |-> HEARTBEAT_CMD]

command_bytesNoEnd ==
    LET c == IF sfun = "sim_send_command"
             THEN (IF sname \in DOMAIN COMMANDS THEN COMMANDS[sname] ELSE <<>>)
             ELSE CommCommands[sname]
    IN SubSeq(c, 1, Len(c) - 1)

\* the bytes of the command being sent
command_bytes ==
    IF sfun = "sim_send_command"
    THEN (IF sname \in DOMAIN COMMANDS THEN COMMANDS[sname] ELSE <<>>)
    ELSE CommCommands[sname]

\* the sleeps of the byte-by-byte senders, in milliseconds
DELAY_MS == 5
POST_START_MS == 20
ESCAPE_MS == 10
SETTLE_MS == 20
Pause(n, ms) == [after |-> n, ms |-> ms]

sendRest == <<hvars, rvars, cvars, twvars, mvars, dvars, pvars>>
\* what a step that sleeps between bytes leaves alone
paceRest == <<hvars, rvars, cvars, twvars, mvars, dvars>>

\* pantilt_simulator.send_command, lines 119-121
SimSendUnknown ==
    /\ sfun = "sim_send_command" /\ spc = "start"
    /\ sname \notin DOMAIN COMMANDS
    /\ spc' = "done" /\ sret' = "False"
    /\ UNCHANGED <<sendRest, sfun, sname, sidx, wire, slog, delayed, sfailed>>

\* lines 123-133: the TX entry is appended before the write
SimSendLog ==
    /\ sfun = "sim_send_command" /\ spc = "start"
    /\ sname \in DOMAIN COMMANDS
    /\ slog' = Append(slog, command_bytes)
    /\ spc' = "write"
    /\ UNCHANGED <<sendRest, sfun, sname, sidx, wire, delayed, sfailed, sret>>

\* lines 135-147: stale input is read away, then write and flush
SimSendWrite ==
    /\ sfun = "sim_send_command" /\ spc = "write"
    /\ \/ wire' = wire \o command_bytes /\ sret' = "True" /\ sfailed' = sfailed
       \/ wire' = wire /\ sret' = "False" /\ sfailed' = TRUE
    /\ spc' = "done"
    /\ UNCHANGED <<sendRest, sfun, sname, sidx, slog, delayed>>

\* pantilt_comm.send_command, lines 156-165: the raw log entry is written
\* before the write
CommSendLog ==
    /\ sfun = "send_command" /\ spc = "start"
    /\ slog' = Append(slog, command_bytes)
    /\ spc' = "write"
    /\ UNCHANGED <<sendRest, sfun, sname, sidx, wire, delayed, sfailed, sret>>

\* lines 167-176
CommSendWrite ==
    /\ sfun = "send_command" /\ spc = "write"
    /\ \/ wire' = wire \o command_bytes /\ sret' = "True" /\ sfailed' = sfailed
       \/ wire' = wire /\ sret' = "False" /\ sfailed' = TRUE
    /\ spc' = "done"
    /\ UNCHANGED <<sendRest, sfun, sname, sidx, slog, delayed>>

\* pantilt_comm.send_bytes_with_delay, lines 135-137: one byte is written
\* and flushed; a failure leaves through the except clause (150-152)
CommBytesWrite ==
    /\ sfun = "send_bytes_with_delay" /\ spc = "start"
    /\ sidx < Len(command_bytes)
    /\ \/ /\ wire' = Append(wire, command_bytes[sidx + 1])
          /\ spc' = "log" /\ sret' = sret /\ sfailed' = sfailed
       \/ /\ wire' = wire
          /\ spc' = "done" /\ sret' = "False" /\ sfailed' = TRUE
    /\ UNCHANGED <<sendRest, sfun, sname, sidx, slog, delayed>>

\* lines 139-141
CommBytesLog ==
    /\ sfun = "send_bytes_with_delay" /\ spc = "log"
    /\ slog' = Append(slog, <<command_bytes[sidx + 1]>>)
    /\ spc' = "delay"
    /\ UNCHANGED <<sendRest, sfun, sname, sidx, wire, delayed, sfailed, sret>>

\* lines 143-144: no delay after the last byte
CommBytesDelay ==
    /\ sfun = "send_bytes_with_delay" /\ spc = "delay"
    /\ delayed' = IF sidx < Len(command_bytes) - 1 THEN sidx + 1 ELSE delayed
    /\ pauses' = IF sidx < Len(command_bytes) - 1
                 THEN Append(pauses, Pause(sidx + 1, DELAY_MS)) ELSE pauses
    /\ sidx' = sidx + 1
    /\ spc' = "start"
    /\ UNCHANGED <<paceRest, sfun, sname, wire, slog, sfailed, sret>>

\* lines 146-149
CommBytesReturn ==
    /\ sfun = "send_bytes_with_delay" /\ spc = "start"
    /\ sidx = Len(command_bytes)
    /\ pauses' = Append(pauses, Pause(sidx, SETTLE_MS))
    /\ spc' = "done" /\ sret' = "True"
    /\ UNCHANGED <<paceRest, sfun, sname, sidx, wire, slog, delayed, sfailed>>

\* pantilt_protocol.send_command_with_precise_timing, lines 98-113: a
\* leading start marker is written and flushed alone, 20 ms pass, and it is
\* taken off the bytes left to send; ser.write is not guarded
ProtoPacedStart ==
    /\ sfun = "send_command_with_precise_timing" /\ spc = "start"
    /\ IF command_bytes # <<>> /\ command_bytes[1] = START
       THEN \/ /\ wire' = Append(wire, START)
               /\ pauses' = Append(pauses, Pause(1, POST_START_MS))
               /\ sidx' = 1 /\ spc' = "loop"
               /\ UNCHANGED <<sret, sfailed>>
            \/ /\ spc' = "done" /\ sret' = "exception" /\ sfailed' = TRUE
               /\ UNCHANGED <<wire, pauses, sidx>>
       ELSE spc' = "loop" /\ UNCHANGED <<wire, pauses, sidx, sret, sfailed>>
    /\ UNCHANGED <<paceRest, sfun, sname, slog, delayed>>

\* lines 116-129: one pass of the loop: the byte is written and flushed, then
\* 10 ms pass behind a 0x5C and byte_delay_ms behind any other byte
ProtoPacedByte ==
    /\ sfun = "send_command_with_precise_timing" /\ spc = "loop"
    /\ sidx < Len(command_bytes)
    /\ \/ /\ wire' = Append(wire, command_bytes[sidx + 1])
          /\ pauses' = Append(pauses, Pause(sidx + 1,
                           IF command_bytes[sidx + 1] = ESC THEN ESCAPE_MS ELSE DELAY_MS))
          /\ sidx' = sidx + 1
          /\ UNCHANGED <<spc, sret, sfailed>>
       \/ /\ spc' = "done" /\ sret' = "exception" /\ sfailed' = TRUE
          /\ UNCHANGED <<wire, pauses, sidx>>
    /\ UNCHANGED <<paceRest, sfun, sname, slog, delayed>>

\* lines 131-134: the settling time, return True
ProtoPacedReturn ==
    /\ sfun = "send_command_with_precise_timing" /\ spc = "loop"
    /\ sidx = Len(command_bytes)
    /\ pauses' = Append(pauses, Pause(sidx, SETTLE_MS))
    /\ spc' = "done" /\ sret' = "True"
    /\ UNCHANGED <<paceRest, sfun, sname, sidx, wire, slog, delayed, sfailed>>

\* one call of a send function on an open port
SendInit ==
    /\ HandshakeIdle /\ RecvIdle /\ CmpIdle /\ TwinIdle /\ MonIdle /\ DrainIdle /\ PaceIdle
    /\ \/ sfun = "sim_send_command" /\ sname \in DOMAIN COMMANDS \cup {"unknown"}
       \/ sfun \in {"send_command", "send_bytes_with_delay"} /\ sname \in DOMAIN CommCommands
       \/ /\ sfun = "send_command_with_precise_timing"
          /\ sname \in {"init", "alt_init", "heartbeat"}
    /\ sidx = 0 /\ wire = <<>> /\ slog = <<>> /\ delayed = 0 /\ sfailed = FALSE
    /\ spc = "start" /\ sret = "none"

SendNext ==
    \/ SimSendUnknown \/ SimSendLog \/ SimSendWrite
    \/ CommSendLog \/ CommSendWrite
    \/ CommBytesWrite \/ CommBytesLog \/ CommBytesDelay \/ CommBytesReturn
    \/ ProtoPacedStart \/ ProtoPacedByte \/ ProtoPacedReturn

SendSpec == SendInit /\ [][SendNext]_vars

\* ------------------------------------------------------- hex_terminal
\* bytes the device sends during a session
MaxArrivals == 3

monRest == <<hvars, rvars, cvars, twvars, svars, dvars, pvars>>

Take(q, n) == SubSeq(q, 1, Min(n, Len(q)))
Drop(q, n) == SubSeq(q, Min(n, Len(q)) + 1, Len(q))

\* the device puts a byte on the line
HexDeviceByte ==
    /\ port_open /\ Len(arrived) < MaxArrivals
    /\ arrived' = Append(arrived, Len(arrived) + 1)
    /\ rxbuf' = Append(rxbuf, Len(arrived) + 1)
    /\ UNCHANGED <<monRest, running, mon_pc, op_pc, port_open, nread, surfaced, wrote>>

\* main, lines 186-189, and connect (21-45)
HexConnect ==
    /\ op_pc = "connect"
    /\ \/ port_open' = TRUE /\ op_pc' = "start"
       \/ port_open' = FALSE /\ op_pc' = "disconnect"
    /\ UNCHANGED <<monRest, running, mon_pc, rxbuf, nread, arrived, surfaced, wrote>>

\* interactive_mode, line 117: start_monitoring (62-66)
HexStartMonitoring ==
    /\ op_pc = "start"
    /\ mon_pc' = "begin" /\ op_pc' = "prompt"
    /\ UNCHANGED <<monRest, running, port_open, rxbuf, nread, arrived, surfaced, wrote>>

\* monitor_port, line 54
MonitorBegin ==
    /\ mon_pc = "begin"
    /\ running' = TRUE /\ mon_pc' = "check"
    /\ UNCHANGED <<monRest, op_pc, port_open, rxbuf, nread, arrived, surfaced, wrote>>

\* lines 55-56: the loop condition and the check of in_waiting
MonitorCheck ==
    /\ mon_pc = "check"
    /\ mon_pc' = IF ~running THEN "exit"
                 ELSE IF port_open /\ Len(rxbuf) > 0 THEN "size" ELSE "sleep"
    /\ UNCHANGED <<monRest, running, op_pc, port_open, rxbuf, nread, arrived, surfaced, wrote>>

\* line 57: the argument self.ser.in_waiting; on a closed port it raises
\* and the thread ends
MonitorSize ==
    /\ mon_pc = "size"
    /\ IF port_open THEN nread' = Len(rxbuf) /\ mon_pc' = "read"
                    ELSE nread' = nread /\ mon_pc' = "exit"
    /\ UNCHANGED <<monRest, running, op_pc, port_open, rxbuf, arrived, surfaced, wrote>>

\* lines 57-59: read and print
MonitorRead ==
    /\ mon_pc = "read"
    /\ IF port_open
       THEN /\ surfaced' = surfaced \o Take(rxbuf, nread)
            /\ rxbuf' = Drop(rxbuf, nread)
            /\ mon_pc' = "sleep"
       ELSE UNCHANGED <<surfaced, rxbuf>> /\ mon_pc' = "exit"
    /\ UNCHANGED <<monRest, running, op_pc, port_open, nread, arrived, wrote>>

\* line 60
MonitorSleep ==
    /\ mon_pc = "sleep"
    /\ mon_pc' = "check"
    /\ UNCHANGED <<monRest, running, op_pc, port_open, rxbuf, nread, arrived, surfaced, wrote>>

\* interactive_mode, lines 142-145: the command `clear`
HexClear ==
    /\ op_pc = "prompt"
    /\ rxbuf' = <<>>
    /\ UNCHANGED <<monRest, running, mon_pc, op_pc, port_open, nread, arrived, surfaced, wrote>>

\* lines 150-173: a command that sends (send_hex 74-96, send_byte 98-108)
HexSend ==
    /\ op_pc = "prompt"
    /\ wrote' = TRUE
    /\ UNCHANGED <<monRest, running, mon_pc, op_pc, port_open, rxbuf, nread, arrived, surfaced>>

\* lines 139-140 and 168-169, then stop_monitoring, line 70
HexQuit ==
    /\ op_pc = "prompt"
    /\ running' = FALSE /\ op_pc' = "join"
    /\ UNCHANGED <<monRest, mon_pc, port_open, rxbuf, nread, arrived, surfaced, wrote>>

\* lines 71-72: join returns when the thread has ended or after a second
HexJoin ==
    /\ op_pc = "join"
    /\ op_pc' = "disconnect"
    /\ UNCHANGED <<monRest, running, mon_pc, port_open, rxbuf, nread, arrived, surfaced, wrote>>

\* main, line 189: disconnect (47-50)
HexDisconnect ==
    /\ op_pc = "disconnect"
    /\ port_open' = FALSE /\ op_pc' = "done"
    /\ UNCHANGED <<monRest, running, mon_pc, rxbuf, nread, arrived, surfaced, wrote>>

MonInit ==
    /\ HandshakeIdle /\ RecvIdle /\ CmpIdle /\ TwinIdle /\ SendIdle /\ DrainIdle /\ PaceIdle
    /\ running = FALSE /\ mon_pc = "none" /\ op_pc = "connect" /\ port_open = FALSE
    /\ rxbuf = <<>> /\ nread = 0 /\ arrived = <<>> /\ surfaced = <<>> /\ wrote = FALSE

MonNext ==
    \/ HexDeviceByte \/ HexConnect \/ HexStartMonitoring
    \/ MonitorBegin \/ MonitorCheck \/ MonitorSize \/ MonitorRead \/ MonitorSleep
    \/ HexClear \/ HexSend \/ HexQuit \/ HexJoin \/ HexDisconnect

MonSpec == MonInit /\ [][MonNext]_vars

\* the same program under fair scheduling: a thread that can take a step
\* takes one (the monitor thread; the main thread's steps that wait for
\* no operator: start_monitoring, join, disconnect)
MonitorStep ==
    MonitorBegin \/ MonitorCheck \/ MonitorSize \/ MonitorRead \/ MonitorSleep
MainStep == HexStartMonitoring \/ HexJoin \/ HexDisconnect
MonLiveSpec == MonSpec /\ WF_vars(MonitorStep) /\ WF_vars(MainStep)

\* ================================================================ claims
IsHbTx(e) == e.k = "tx" /\ e.what = "heartbeat"
IsHbRx(e) == e.k = "rx" /\ e.what = "heartbeat"
IsSyncRx(e) == e.k = "rx" /\ e.what = "sync"
IsInitPhase(e) == e.what \notin {"sync", "heartbeat", "nul"}
IsInitRx(e) == e.k = "rx" /\ e.what \notin {"sync", "heartbeat"}

HbTxs == SelectSeq(trace, IsHbTx)
HbRxs == SelectSeq(trace, IsHbRx)
SyncRxs == SelectSeq(trace, IsSyncRx)
InitRxs == SelectSeq(trace, IsInitRx)
Ladder == SelectSeq(trace, IsInitPhase)
Tag(e) == <<e.k, e.what>>

AttemptOver == ret \in {"True", "False"}
SyncCount == IF prog = "comm" THEN SYNC_ATTEMPTS ELSE SIM_SYNC_ATTEMPTS
SyncExhausted ==
    /\ prog \in {"comm", "sim"}
    /\ Len(SyncRxs) = SyncCount
    /\ \A j \in 1..Len(SyncRxs) : ~SyncRxs[j].ok

\* C1: in a sweep (here: one without write failures), once a candidate's
\* attempt has succeeded, no later candidate is attempted: no port is opened
\* and no byte is sent for one.
\* try_all_configurations drops run_test_sequence's result and goes on.
C1_NoCandidateAfterReady ==
    (readyAt # 0 /\ writeFails = 0) => ~openedAfterReady /\ ~sentAfterReady

CommLadder ==
    << <<"tx", "init">>, <<"rx", "init">>, <<"tx", "alt_init">>, <<"rx", "alt_init">>,
       <<"line", "rts">>, <<"line", "rts">>, <<"line", "dtr">>, <<"line", "dtr">>,
       <<"tx", "hb_direct">>, <<"rx", "hb_direct">> >>

ProtoLadder ==
    << <<"tx", "init">>, <<"rx", "init">>,
       <<"line", "rts">>, <<"line", "rts">>, <<"line", "dtr">>, <<"line", "dtr">>,
       <<"tx", "start">>, <<"rx", "start">>,
       <<"tx", "init_resend">>, <<"rx", "init_resend">>,
       <<"tx", "alt_init">>, <<"rx", "alt_init">> >>

LadderFollows(steps) ==
    LET L == Ladder
    IN  /\ \A j \in 1..Len(L) : j <= Len(steps) => Tag(L[j]) = steps[j]
        /\ \A j \in 1..Len(L) :
              (j < Len(L) /\ L[j].k = "rx" /\ L[j].what # "start") => ~L[j].ok

C3_MissedHeartbeatTolerated ==
    (AttemptOver /\ writeFails = 0 /\ Len(HbRxs) >= 2
        /\ HbRxs[1].ok /\ ~HbRxs[2].ok)
    => /\ Len(HbTxs) = HEARTBEATS
       /\ Len(HbRxs) = HEARTBEATS
       /\ HbRxs[HEARTBEATS].ok => ret = "True"

\* C4: an attempt whose heartbeat cycle sent every heartbeat and got no
\* response to any of them is not reported a success.
\* run_test_sequence and run_protocol_sequence return True whatever the
\* heartbeats received.
C4_AllHeartbeatsLostIsNotSuccess ==
    (AttemptOver /\ Len(HbRxs) = HEARTBEATS
        /\ \A j \in 1..Len(HbRxs) : ~HbRxs[j].ok)
    => ret # "True"

Failed == ret = "False" /\ HbTxs = <<>>

\* C5: an attempt ends Failed only if no receive of the initialization phase
\* returned bytes, it ends Failed when every receive of the phase was made
\* and returned none, and a receive of the phase that returned bytes is
\* followed directly by the heartbeat cycle.
\* execute_initialization_sequence reads and drops what answers the wake-up
\* NUL bytes and the start marker after the line pulse.
C5_FailedIffNoBytes ==
    /\ Failed => \A j \in 1..Len(InitRxs) : ~InitRxs[j].ok
    /\ (AttemptOver /\ writeFails = 0 /\ InitRxs # <<>>
           /\ \A j \in 1..Len(InitRxs) : ~InitRxs[j].ok) => Failed
    /\ \A j \in 1..Len(trace) :
          (j < Len(trace) /\ IsInitRx(trace[j]) /\ trace[j].ok)
             => trace[j + 1].what = "heartbeat"

\* C6: when every sync attempt went unanswered the attempt goes on to send
\* the initialization command: it is the next command after the last sync,
\* and no attempt on an open port ends Failed without having sent it.
C6_SyncFailureNonFatal ==
    /\ SyncExhausted =>
          \/ pc \in {"c_clear", "c_init_send", "s_init_send"}
          \/ /\ Len(trace) > 2 * SyncCount
             /\ Tag(trace[2 * SyncCount + 1]) = <<"tx", "init">>
    /\ (prog \in {"comm", "sim"} /\ ret = "False" /\ trace # <<>>) =>
          \E j \in 1..Len(trace) : Tag(trace[j]) = <<"tx", "init">>

C6_Witness ==
    /\ prog = "comm" /\ SyncExhausted
    /\ Len(trace) > 2 * SYNC_ATTEMPTS
    /\ trace[2 * SYNC_ATTEMPTS + 1] = Tx("init", TRUE)
    /\ pc = "c_init_recv"

HasStart(r) == \E j \in 1..Len(r) : r[j] = START

\* the cold start: no sync attempt answered, the plain initialization
\* answered by the 15-byte frame, all three heartbeats answered (in the
\* simulator: by bytes holding a start marker, which is what it logs)
ColdStart ==
    /\ AttemptOver
    /\ SyncExhausted
    /\ InitRxs = <<Rx("init", TRUE, EXPECTED_RESPONSES.initialization)>>
    /\ Len(HbRxs) = HEARTBEATS
    /\ \A j \in 1..Len(HbRxs) :
          HbRxs[j].ok /\ (prog = "sim" => HasStart(HbRxs[j].data))

CommInitTxLen == Len(CommTxEntries(send_style, INIT_CMD, Len(INIT_CMD)))
CommHbLog == SubSeq(log, SYNC_ATTEMPTS + CommInitTxLen + 2, Len(log))
CommHbPair(h) ==
    CommTxEntries(send_style, HEARTBEAT_CMD, Len(HEARTBEAT_CMD))
       \o <<[dir |-> "RX", name |-> "", data |-> HbRxs[h].data]>>
IsHbCmdEntry(e) == e.dir = "TX" /\ e.data = HEARTBEAT_CMD
IsHbNamed(e) == e.name = "heartbeat"
SimHbPair(h) ==
    <<[dir |-> "TX", name |-> "heartbeat", data |-> HEARTBEAT_CMD],
      [dir |-> "RX", name |-> "heartbeat",
       data |-> SimLoop(SimStart, HbRxs[h].data).buffer]>>

MaxCalls == 4

closeRest == <<rvars, xvars, runv, profile, response, success, log, cand, histv, writeFails,
               drained, old_rts, old_dtr>>

\* Serial() and ser.close() as entries of the trace
Opening == [k |-> "open", what |-> "port", ok |-> TRUE, data |-> <<>>]
Closing == [k |-> "close", what |-> "port", ok |-> TRUE, data |-> <<>>]
Closings == Len(SelectSeq(trace, LAMBDA e : e.k = "close"))
Openings == Len(SelectSeq(trace, LAMBDA e : e.k = "open"))
Calling == pc \in {"k_call", "k_conn", "k_disc"} /\ i < MaxCalls

\* PanTiltConnector.connect (pantilt_comm.py 54-95) on a closed port: the
\* port opens and both lines are driven low, or Serial() raises and connect
\* returns False
CommConnectCall ==
    /\ prog = "comm" /\ Calling /\ ~is_open
    /\ \/ /\ is_open' = TRUE /\ dtr' = FALSE /\ rts' = FALSE
          /\ port_cfg' = Opened("arg", "N", 1, FALSE)
          /\ trace' = trace \o <<Opening, Line("dtr", FALSE), Line("rts", FALSE)>>
       \/ UNCHANGED <<is_open, dtr, rts, trace, port_cfg>>
    /\ i' = i + 1 /\ pc' = "k_conn"
    /\ UNCHANGED <<closeRest, ret>>

\* PanTiltProtocol.connect (pantilt_protocol.py 34-68)
ProtoConnectCall ==
    /\ prog = "proto" /\ Calling /\ ~is_open
    /\ \/ /\ is_open' = TRUE /\ dtr' = FALSE /\ rts' = FALSE
          /\ port_cfg' = Opened("arg", "N", 1, FALSE)
          /\ trace' = trace \o <<Opening, Line("dtr", FALSE), Line("rts", FALSE)>>
       \/ UNCHANGED <<is_open, dtr, rts, trace, port_cfg>>
    /\ i' = i + 1 /\ pc' = "k_conn"
    /\ UNCHANGED <<closeRest, ret>>

\* PanTiltController.connect (pantilt_simulator.py 59-101): the lines are
\* not touched
SimConnectCall ==
    /\ prog = "sim" /\ Calling /\ ~is_open
    /\ \/ /\ is_open' = TRUE /\ trace' = Append(trace, Opening)
          /\ port_cfg' = Opened("arg", "N", 1, FALSE)
       \/ UNCHANGED <<is_open, trace, port_cfg>>
    /\ i' = i + 1 /\ pc' = "k_conn"
    /\ UNCHANGED <<closeRest, ret, dtr, rts>>

CommDisconnectCallUnguarded ==
    /\ prog = "comm" /\ Calling
    /\ dtr' = TRUE /\ rts' = TRUE /\ is_open' = FALSE
    /\ trace' = trace \o <<Line("dtr", TRUE), Line("rts", TRUE), Closing>>
    /\ i' = i + 1 /\ pc' = "k_disc"
    /\ UNCHANGED <<closeRest, port_cfg, ret>>

\* PanTiltConnector.disconnect (pantilt_comm.py 97-114): nothing is done
\* unless self.ser exists and is open
CommDisconnectCall ==
    /\ prog = "comm" /\ Calling
    /\ IF is_open
       THEN /\ dtr' = TRUE /\ rts' = TRUE /\ is_open' = FALSE
            /\ trace' = trace \o <<Line("dtr", TRUE), Line("rts", TRUE), Closing>>
       ELSE UNCHANGED <<dtr, rts, is_open, trace>>
    /\ i' = i + 1 /\ pc' = "k_disc"
    /\ UNCHANGED <<closeRest, port_cfg, ret>>

\* PanTiltProtocol.disconnect (pantilt_protocol.py 71-83)
ProtoDisconnectCall ==
    /\ prog = "proto" /\ Calling
    /\ IF is_open
       THEN /\ dtr' = TRUE /\ rts' = TRUE /\ is_open' = FALSE
            /\ trace' = trace \o <<Line("dtr", TRUE), Line("rts", TRUE), Closing>>
       ELSE UNCHANGED <<dtr, rts, is_open, trace>>
    /\ i' = i + 1 /\ pc' = "k_disc"
    /\ UNCHANGED <<closeRest, port_cfg, ret>>

\* PanTiltController.disconnect (pantilt_simulator.py 103-107): the lines
\* are left as they are
SimDisconnectCall ==
    /\ prog = "sim" /\ Calling
    /\ IF is_open
       THEN is_open' = FALSE /\ trace' = Append(trace, Closing)
       ELSE UNCHANGED <<is_open, trace>>
    /\ i' = i + 1 /\ pc' = "k_disc"
    /\ UNCHANGED <<closeRest, port_cfg, ret, dtr, rts>>

\* a connector whose port is open, closed or was never opened, with the
\* control lines in any state
CloseInit ==
    /\ prog \in {"comm", "proto", "sim"} /\ pc = "k_call"
    /\ mode = "single" /\ send_style = "normal" /\ profile = "free"
    /\ is_open \in BOOLEAN /\ rts \in BOOLEAN /\ dtr \in BOOLEAN
    /\ old_rts = FALSE /\ old_dtr = FALSE
    /\ i = 0 /\ response = <<>> /\ success = FALSE /\ ret = "none"
    /\ log = <<>> /\ trace = <<>> /\ cand = 0 /\ readyAt = 0
    /\ openedAfterReady = FALSE /\ sentAfterReady = FALSE
    /\ writeFails = 0 /\ drained = 0 /\ port_cfg = NoPort
    /\ RecvIdle /\ OtherIdle

CloseNext ==
    \/ CommConnectCall \/ ProtoConnectCall \/ SimConnectCall
    \/ CommDisconnectCall \/ ProtoDisconnectCall \/ SimDisconnectCall

CloseSpec == CloseInit /\ [][CloseNext]_vars

\* ------------------------------------------------ a call of toggle_rts_dtr
\* toggle_rts_dtr (pantilt_comm.py 243-271) called on an open port whose
\* lines are at any levels, under any candidate of the first baud group;
\* the trace starts with the levels the call finds, its locals old_rts and
\* old_dtr hold anything before their assignment
ToggleInit ==
    /\ prog = "comm" /\ pc = "c_tog_rts_hi"
    /\ mode \in {"single", "sweep"} /\ send_style \in {"normal", "byte_by_byte"}
    /\ profile = "free" /\ is_open = TRUE
    /\ rts \in BOOLEAN /\ dtr \in BOOLEAN
    /\ old_rts \in BOOLEAN /\ old_dtr \in BOOLEAN
    /\ trace = <<Line("rts", rts), Line("dtr", dtr)>>
    /\ i = 0 /\ response = <<>> /\ success = FALSE /\ ret = "none"
    /\ log = <<>> /\ cand \in 1..CONFIGS_PER_BAUD /\ readyAt = 0
    /\ openedAfterReady = FALSE /\ sentAfterReady = FALSE
    /\ writeFails = 0 /\ drained = 0 /\ port_cfg = CommSettings(cand)
    /\ RecvIdle /\ OtherIdle

ToggleNext ==
    \/ CommToggleRtsHigh \/ CommToggleRtsLow \/ CommToggleRtsRestore
    \/ CommToggleDtrHigh \/ CommToggleDtrLow \/ CommToggleDtrRestore

ToggleSpec == ToggleInit /\ [][ToggleNext]_vars

\* ------------------------------------------------ claims on the receivers
\* a returned byte sequence read as a frame: complete when it runs from a
\* start marker to an end marker, the payload what lies between them
Complete(buf) == Len(buf) >= 2 /\ buf[1] = START /\ buf[Len(buf)] = END
Payload(buf) ==
    IF buf = <<>> \/ buf[1] # START THEN <<>>
    ELSE IF Complete(buf) THEN SubSeq(buf, 2, Len(buf) - 1)
    ELSE Tail(buf)
Returned == rpc = "done"

\* C8: on a port that never produces bytes the receive loop checks the port
\* only while the deadline has not passed, returns within one idle sleep of
\* the deadline, and returns nothing: no bytes, so no complete frame and an
\* empty payload.
C8_SilentPortTimesOut ==
    (rprog # "none" /\ stream = <<>>) =>
       /\ lastPoll < timeout
       /\ Returned =>
             /\ resp = <<>> /\ ~Complete(resp) /\ Payload(resp) = <<>>
             /\ exitReason = "deadline"
             /\ timeout <= elapsed
             /\ elapsed < timeout + IDLE_TICKS + MaxOvershoot

C8_Witness ==
    /\ rprog = "comm" /\ stream = <<>> /\ Returned
    /\ lastPoll = timeout - 1 /\ elapsed > timeout /\ resp = <<>>

Burst == <<START, 128, END>>
\* the time the receiver needs from its first read of the burst to its
\* return: receive_response sleeps once after the end marker, read_response
\* reads the burst byte by byte
ReadSlack ==
    IF rprog = "sim" THEN Len(Burst) * MaxOvershoot ELSE GRACE_TICKS + MaxOvershoot
BurstRead ==
    /\ Returned /\ stream = Burst /\ burst
    /\ expected_end /\ min_bytes <= Len(Burst)
    /\ readAt # -1

\* C9: when the device emits 3C 80 7C in one burst and the receiver, told to
\* expect the end marker, reads it with the deadline further away than its
\* post-marker delay, it returns the complete frame with payload 80, leaves
\* the loop because of the end marker and returns before the deadline;
\* receive_response checks the port in its loop no more after that read.
C9_BurstEarlyExit ==
    /\ (BurstRead /\ readAt + ReadSlack < timeout) =>
          /\ resp = Burst /\ Complete(resp) /\ Payload(resp) = <<128>>
          /\ exitReason = "marker"
          /\ elapsed <= readAt + ReadSlack /\ elapsed < timeout
    /\ (BurstRead /\ rprog = "comm") =>
          /\ resp = Burst /\ exitReason = "marker"
          /\ lastPoll = readAt /\ elapsed <= readAt + ReadSlack

C9_Witness ==
    /\ BurstRead /\ rprog = "comm" /\ min_bytes = 1
    /\ readAt = 0 /\ elapsed < timeout
    /\ resp = Burst /\ exitReason = "marker"

NoMarkers(p) == \A j \in 1..Len(p) : p[j] # START /\ p[j] # END
Inner(s) == SubSeq(s, 2, Len(s) - 1)
\* read_response was given START + payload + END, the payload free of both
\* markers, and did not run into its deadline
DecodedFramed ==
    /\ rprog = "sim" /\ Returned /\ exitReason # "deadline"
    /\ Len(stream) >= 2 /\ stream[1] = START /\ stream[Len(stream)] = END
    /\ NoMarkers(Inner(stream))

DiffSet(a, e) == {j \in 0..(Min(Len(a), Len(e)) - 1) : a[j + 1] # e[j + 1]}
Increasing(q) == \A j \in 1..(Len(q) - 1) : q[j] < q[j + 1]
Range(q) == {q[j] : j \in 1..Len(q)}

\* C11: compare_response returns True exactly for equal sequences, and for
\* unequal ones the positions it reports are, in increasing order, exactly
\* the indices below both lengths at which the bytes differ, also when the
\* lengths differ; for 3C 80 5C against 3C 81 5C it reports not equal and
\* position 1.
C11_DiffPositions ==
    cmp_pc = "done" =>
       /\ cmp_ret = (IF actual = expected THEN "True" ELSE "False")
       /\ Increasing(differences)
       /\ Range(differences) = DiffSet(actual, expected)
       /\ (actual = <<START, 128, ESC>> /\ expected = <<START, 129, ESC>>)
             => cmp_ret = "False" /\ differences = <<1>>

\* lengths differ and a position below both lengths differs as well
C11_Witness ==
    /\ cmp_pc = "done" /\ cmp_ret = "False"
    /\ actual = <<START, 128, 129, ESC>> /\ expected = <<START, 129, 128>>
    /\ length_mismatch /\ differences = <<1, 2>>

\* ------------------------------------------------ claims on two runs
\* C12: the comparison with the expected response never decides what the
\* handshake does next: a second run that meets the same openings, write
\* results and empty or non-empty receives as a first one, whatever the
\* content of the responses, makes the same sends and receives in the same
\* order and ends with the same outcome.
C12_ComparisonNeverGates ==
    first # NoRun =>
       /\ \A j \in 1..Min(Len(trace), Len(first.trace)) :
             <<trace[j].k, trace[j].what>> = <<first.trace[j][1], first.trace[j][2]>>
       /\ RunOver => (Shape(trace) = first.trace /\ ret = first.ret)

\* a first run whose responses all matched, a second whose responses all
\* failed the comparison, both complete
C12_Witness ==
    /\ first.as_expected /\ first.ret = "True"
    /\ RunOver /\ ret = "True" /\ matched = "False"
    /\ \A j \in 1..Len(trace) :
          (trace[j].k = "rx" /\ trace[j].ok) => trace[j].data # Expected(trace[j].what)

\* ------------------------------------------------ claims on the sends
RECURSIVE Flat(_)
Flat(q) == IF q = <<>> THEN <<>> ELSE Head(q) \o Flat(Tail(q))

\* C13: a send whose write fails reports failure, and the log then holds
\* TX entries only for the bytes written before the failure.
C13_LogOnlyWhatWasWritten ==
    (spc = "done" /\ sfailed) => (sret = "False" /\ Flat(slog) = wire)

\* C14: for every byte the order is write, log entry, delay: no byte is in
\* a TX entry before it is on the wire, and no byte's delay starts before
\* its entry is appended.
C14_WriteLogDelay ==
    /\ Len(Flat(slog)) <= Len(wire)
    /\ delayed <= Len(Flat(slog))

\* ------------------------------------------------ claims on failures
\* C15: a write failure on the initialization, the alternate initialization,
\* the direct heartbeat probe or a heartbeat of the cycle ends the attempt
\* as Failed: nothing is sent after it and the attempt is not reported a
\* success.
C15_WriteFailureEndsAttempt ==
    \A j \in 1..Len(trace) :
        (/\ trace[j].k = "tx" /\ ~trace[j].ok
         /\ trace[j].what \in {"init", "alt_init", "hb_direct", "heartbeat"})
        => /\ \A n \in (j + 1)..Len(trace) : trace[n].k # "tx"
           /\ ret # "True"

\* C16: when the port cannot be opened for a candidate of a sweep, nothing
\* is sent for that candidate and the sweep goes on to the next one: the
\* simulator's loop continues, and pantilt_comm's attempt returns at once
\* and the sweep proceeds through its disconnect to the next connect.
C16_OpenFailureSkipsCandidate ==
    [][ /\ (/\ mode = "sweep" /\ pc \in {"c_connect", "s_connect"}
            /\ cand' = cand + 1 /\ ~is_open')
           => /\ trace' = <<>>
              /\ pc' = IF prog = "comm" THEN "c_run"
                       ELSE IF cand' = SIM_CONFIGS THEN "done" ELSE "s_connect"
        /\ (prog = "comm" /\ mode = "sweep" /\ ~is_open /\ pc \in {"c_run", "c_ret"})
           => /\ trace' = <<>>
              /\ pc' = IF pc = "c_run" THEN "c_ret" ELSE "sw_disc"
        /\ (prog = "comm" /\ mode = "sweep" /\ pc = "sw_disc" /\ trace = <<>>)
           => /\ trace' = <<>>
              /\ pc' = IF cand % CONFIGS_PER_BAUD = 0 THEN "sw_gate" ELSE "c_connect"
      ]_vars

\* the first candidate's port could not be opened, nothing was sent, and the
\* sweep is about to open the port for the second candidate
C16_Witness ==
    /\ mode = "sweep" /\ cand = 1 /\ ~is_open /\ trace = <<>>
    /\ \/ prog = "comm" /\ pc = "c_connect" /\ ret = "False"
       \/ prog = "sim" /\ pc = "s_connect"

\* ------------------------------------------------ claims on the monitor
\* C17: while the monitor thread runs next to the operator's commands, no
\* byte that arrived at the port is lost: each has been surfaced once, in
\* order, or still waits in the port's buffer.
C17_NoByteLost == running => arrived = surfaced \o rxbuf

\* ------------------------------------------------ claims on interrupts
\* C18: after an operator interrupt, at whatever point of the attempt or
\* the sweep it came, a port that was opened is closed again with RTS and
\* DTR at the level a normal disconnect leaves them at (both set).
C18_InterruptRestoresLines ==
    (pc = "interrupted" /\ prog \in {"comm", "proto"} /\ (is_open \/ rts \/ dtr))
       => (~is_open /\ rts /\ dtr)

\* ------------------------------------------------ claims on termination
\* C19: every attempt terminates whatever the device does, a device that
\* keeps streaming included.
C19_AttemptTerminates == <>(pc = "done")

\* ------------------------------------------------ claims on the sweep
\* C20: when a sweep has ended it holds, for every candidate it attempted,
\* the outcome that candidate's handshake reached: here for the last
\* candidate, and for the first candidate that was reported a success.
C20_OutcomesKept ==
    (pc = "done" /\ mode = "sweep" /\ cand >= 1 /\ ret # "none")
       => /\ Held(cand) = ret
          /\ readyAt # 0 => Held(readyAt) = "True"

\* ------------------------------------------------ claims on the gate
\* C21: the sweep asks the operator between two consecutive baud groups and
\* nowhere else, not inside a group and not after the last one; a later
\* group is entered only through the gate, and a sweep the operator declines
\* to continue ends there.
C21_GateBetweenGroupsOnly ==
    [][ prog = "comm" =>
          /\ pc' = "sw_gate" =>
                (cand' % CONFIGS_PER_BAUD = 0 /\ cand' < MaxBaudGroups * CONFIGS_PER_BAUD)
          /\ (mode = "sweep" /\ pc' = "c_connect" /\ pc # "c_connect"
                /\ cand' > 0 /\ cand' % CONFIGS_PER_BAUD = 0) => pc = "sw_gate"
          /\ (pc = "sw_gate" /\ pc' # "c_connect") => pc' = "done"
      ]_vars

\* ------------------------------------------------ claims on the port
\* C22: a sweep is sequential: the port of a candidate is closed before the
\* port of the next candidate is opened, and an attempt runs only on the
\* port of the candidate in hand.
C22_OnePortAtATime ==
    [][ /\ cand' = cand + 1 => ~is_open
        /\ cand' # cand => (cand' = cand + 1 /\ pc \in {"c_connect", "s_connect"})
        /\ trace' # trace => (is_open \/ is_open' \/ trace' = <<>>)
      ]_vars

\* the second candidate's port is open, the first one's was closed before
C22_Witness == mode = "sweep" /\ cand = 2 /\ is_open /\ trace # <<>>

\* ------------------------------------------------ claims on decoding
HasNoStart(r) == \A j \in 1..Len(r) : r[j] # START
LastRx == trace # <<>> /\ Last(trace).k = "rx"

\* C23: when what read_response received holds no start marker, what it
\* returns is every byte it saw (raw), which is no complete frame and has an
\* empty payload, and nothing is logged as a received frame; and when it
\* saw no byte at all its caller takes that as no response: the sync is
\* retried or given up, the initialization ends the attempt as failed, a
\* heartbeat ends the cycle without success.
C23_NoStartMarker ==
    (prog = "sim" /\ LastRx /\ HasNoStart(Last(trace).data)) =>
       LET r == Last(trace).data IN
       /\ response = r
       /\ ~Complete(response) /\ Payload(response) = <<>>
       /\ log = <<>> \/ Last(log).dir = "TX"
       /\ matched = "none"
       /\ r = <<>> =>
             /\ ~Last(trace).ok
             /\ Last(trace).what = "sync" => pc \in {"s_sync_send", "s_init_send"}
             /\ Last(trace).what = "init" => (ret = "False" /\ pc \in {"s_disc", "s_connect", "done"})
             /\ Last(trace).what = "heartbeat" => (~success /\ ret # "True")

\* a stray byte without a start marker came back as raw, after a receive
\* that saw nothing
C23_Witness ==
    /\ prog = "sim" /\ LastRx /\ Last(trace).data = Junk /\ response = Junk
    /\ \E j \in 1..Len(trace) : trace[j].k = "rx" /\ trace[j].data = <<>>

\* C24: whenever a receive loop is left because the end marker was seen
\* (the frame is complete), the bytes it returns begin with the start
\* marker 0x3C and end with the end marker 0x7C, and the payload is those
\* bytes without the two markers; for every stream the port delivers,
\* bytes before the start marker or after the end marker included.
C24_FrameInvariant ==
    (Returned /\ exitReason = "marker") =>
       /\ resp # <<>> /\ resp[1] = START /\ resp[Len(resp)] = END
       /\ Len(resp) >= 2
       /\ Payload(resp) = Inner(resp)

\* ------------------------------------------------ claims on the commands
Sent == spc = "done" /\ sret = "True"
Marked(w) == w # <<>> /\ w[1] = START /\ w[Len(w)] = END

\* C25 as stated: whichever command of the table a send function has put
\* on the wire (sync, initialization, alternative initialization,
\* heartbeat), the bytes written start with 0x3C and end with 0x7C.
C25_AllCommandsMarked == Sent => Marked(wire)

\* C25 amended: the initialization, the alternative initialization and the
\* heartbeat go on the wire starting with 0x3C and ending with 0x7C; the
\* sync command is the start marker 0x3C alone, with no end marker.
C25_CommandsMarkedButSync ==
    Sent => IF sname = "sync" THEN wire = <<START>> ELSE Marked(wire)

C25_Witness ==
    /\ Sent /\ sfun = "send_bytes_with_delay" /\ sname = "alt_init"
    /\ wire = ALT_INIT_CMD /\ Marked(wire)

\* ------------------------------------------------ claims on Degraded
\* an attempt that got bytes in its initialization phase and no response to
\* any heartbeat of its cycle; one that got no bytes in its initialization
\* phase
Degraded ==
    /\ AttemptOver
    /\ \E j \in 1..Len(InitRxs) : InitRxs[j].ok
    /\ HbRxs # <<>> /\ \A j \in 1..Len(HbRxs) : ~HbRxs[j].ok
NoInitResponse == AttemptOver /\ \A j \in 1..Len(InitRxs) : ~InitRxs[j].ok

\* C26: a sweep does not stop at a candidate whose attempt ended Degraded:
\* after closing that candidate's port it goes on to the next candidate (in
\* pantilt_comm by way of the operator's prompt at the end of a baud group),
\* and what the attempt logged tells Degraded from Failed: the last entry of
\* a Degraded attempt is a heartbeat that failed (unanswered, or not written),
\* a Failed attempt has no entry of the heartbeat cycle and is reported False.
C26_DegradedGoesOn ==
    [][ mode = "sweep" =>
          /\ (Degraded /\ pc = "s_disc" /\ cand < SIM_CONFIGS) =>
                (pc' = "s_connect" /\ readyAt # cand)
          /\ (Degraded /\ pc = "sw_disc") => pc' \in {"c_connect", "sw_gate"}
          /\ (Degraded /\ pc = "sw_gate" /\ cand < MaxBaudGroups * CONFIGS_PER_BAUD) =>
                (ENABLED (SweepGate /\ pc' = "c_connect"))
          /\ Degraded => (Last(trace).what = "heartbeat" /\ ~Last(trace).ok /\ ~NoInitResponse)
          /\ NoInitResponse => (HbTxs = <<>> /\ HbRxs = <<>> /\ ret = "False" /\ ~Degraded)
      ]_vars

\* the second candidate is attempted after the first ended Degraded
C26_Witness ==
    /\ mode = "sweep" /\ prog = "sim" /\ cand = 1 /\ pc = "s_disc" /\ Degraded

\* ------------------------------------------------ claims on closing
\* C27: a call of disconnect on a port that is closed, or was never
\* opened, changes neither control line, does not call close and raises
\* nothing; so a disconnect that follows a disconnect changes nothing, and
\* close is never called more often than the port was opened.
C27_CloseIdempotent ==
    [][ /\ (pc' = "k_disc" /\ ~is_open) => UNCHANGED <<is_open, rts, dtr, trace, ret>>
        /\ (pc' = "k_disc" /\ pc = "k_disc") => UNCHANGED <<is_open, rts, dtr, trace, ret>>
        /\ pc' = "k_disc" =>
              /\ ~is_open' /\ ret' = "none"
              /\ Closings' <= Openings' + (IF trace' # <<>> /\ trace'[1].k # "open" THEN 1 ELSE 0)
      ]_vars

\* disconnect was called twice on a connector whose port was open
C27_Witness ==
    /\ prog = "comm" /\ pc = "k_disc" /\ i = 2
    /\ ~is_open /\ rts /\ dtr /\ Closings = 1 /\ Openings = 0

\* ------------------------------------------------ claims on the frame
\* the first position from `from` on at which s holds b, 0 when there is none
FirstAt(s, b, from) ==
    IF \E j \in from..Len(s) : s[j] = b
    THEN CHOOSE j \in from..Len(s) : s[j] = b /\ \A k \in from..(j - 1) : s[k] # b
    ELSE 0
\* from the first start marker to the first end marker behind it, or to the
\* end of s when no end marker follows
FrameOf(s) ==
    LET a == FirstAt(s, START, 1)
        e == FirstAt(s, END, a + 1)
    IN  IF a = 0 THEN <<>>
        ELSE IF e = 0 THEN SubSeq(s, a, Len(s)) ELSE SubSeq(s, a, e)

\* C28: when what read_response received holds a start marker, the frame it
\* returns runs from the first 0x3C to the first 0x7C behind it: what came
\* before the first 0x3C is left out, a later 0x3C is kept as a byte of the
\* body, nothing behind that 0x7C is read, and when no 0x7C was received
\* the frame is incomplete and holds everything from the start marker on.
\* What was received is the part of the stream read before the loop ended.
C28_FirstStartToFirstEnd ==
    (rprog = "sim" /\ Returned /\ ~HasNoStart(rst.raw_buffer)) =>
       LET raw == rst.raw_buffer
           a == FirstAt(raw, START, 1)
           e == FirstAt(raw, END, a + 1)
       IN  /\ stream = raw \o inq \o dev
           /\ resp = FrameOf(raw) /\ resp = rst.buffer
           /\ resp[1] = START
           /\ e # 0 => (e = Len(raw) /\ Complete(resp) /\ exitReason = "marker")
           /\ e = 0 => (~Complete(resp) /\ resp = SubSeq(raw, a, Len(raw))
                          /\ exitReason # "marker")

\* a start marker, a second one that stays a byte of the body, the end marker
C28_Witness ==
    /\ rprog = "sim" /\ Returned /\ stream = <<60, 60, 124>> /\ resp = <<60, 60, 124>>

\* ------------------------------------------------ claims on pacing
PacedSend == sfun \in {"send_bytes_with_delay", "send_command_with_precise_timing"}
\* the delay the pacing rule puts behind byte n of command c
DelayAfter(c, n) ==
    IF n = 1 /\ c[1] = START THEN POST_START_MS
    ELSE IF c[n] = ESC THEN ESCAPE_MS
    ELSE DELAY_MS

\* C29: a byte-by-byte send writes the bytes of the command one at a time,
\* in order and once, so that a send that returns True has put exactly the
\* command on the wire; the sleep behind a byte is 20 ms when it is the
\* leading 0x3C, 10 ms when it is 0x5C and the inter-byte delay (5 ms)
\* otherwise; every byte written has had its sleep before the next one is
\* written; and the last sleep of a send that returns True is the settling
\* time of 20 ms.
C29_PacedSend ==
    [][ PacedSend =>
          /\ wire' # wire =>
                /\ Len(wire') = Len(wire) + 1
                /\ wire' = SubSeq(command_bytes, 1, Len(wire'))
          /\ sret' = "True" =>
                /\ wire' = command_bytes
                /\ pauses' # <<>>
                /\ Last(pauses') = Pause(Len(command_bytes), SETTLE_MS)
          /\ \A j \in 1..Len(pauses') :
                (j < Len(pauses') \/ sret' # "True") =>
                   pauses'[j].ms = DelayAfter(command_bytes, pauses'[j].after)
          /\ \A n \in 1..(Len(wire') - 1) :
                \E j \in 1..Len(pauses') : pauses'[j].after = n
      ]_vars

\* ------------------------------------------------ claims on the candidates
\* candidate c of the sweep: the baud rates in the order of the list, and for
\* each 8N1, 8N1 with RTS/CTS, 8E1, 8O1
CandidateOf(c) ==
    LET g == ((c - 1) \div 4) + 1
        k == ((c - 1) % 4) + 1
    IN  [baud |-> <<9600, 4800, 2400, 19200, 38400, 57600, 115200>>[g],
         parity |-> <<"N", "N", "E", "O">>[k], stopbits |-> 1, rtscts |-> (k = 2),
         cleared |-> TRUE]
SomeTx(t) == \E j \in 1..Len(t) : t[j].k = "tx"

IsSyncTx(e) == e.k = "tx" /\ e.what = "sync"

\* C31: an attempt sends the sync command at most N times (5 in
\* pantilt_comm, 3 in pantilt_simulator), each send followed by one receive;
\* no sync is sent after a receive that returned bytes, and none after N
\* unanswered ones: what follows is the initialization phase.
C31_SyncBounded ==
    prog \in {"comm", "sim"} =>
       LET txs == SelectSeq(trace, IsSyncTx)
           rxs == SyncRxs
       IN  /\ Len(txs) <= SyncCount
           /\ Len(rxs) <= Len(txs) /\ Len(txs) <= Len(rxs) + 1
           /\ \A j \in 1..Len(rxs) : rxs[j].ok => (j = Len(rxs) /\ Len(txs) = j)
           /\ \A j \in 2..Len(trace) :
                 trace[j].what = "sync" => trace[j - 1].what = "sync"

\* the second sync was answered and the initialization has been sent
C31_Witness ==
    /\ prog = "comm" /\ Len(SyncRxs) = 2 /\ ~SyncRxs[1].ok /\ SyncRxs[2].ok
    /\ Len(trace) = 5 /\ Tag(trace[5]) = <<"tx", "init">>

\* ------------------------------------------------ claims on the early stop
\* the condition of the early stop on the bytes accumulated so far
MayStopEarly(buf) ==
    expected_end /\ (\E j \in 1..Len(buf) : buf[j] = END) /\ Len(buf) >= min_bytes

\* C32: receive_response leaves its loop before the deadline only when an
\* end marker was asked for, 0x7C is among the bytes accumulated and they
\* are at least min_bytes; it then sleeps, drains the port once more and
\* stops. In every other case it goes on polling until the deadline has
\* passed.
C32_EarlyStopOnlyOnMarker ==
    [][ rprog = "comm" =>
          /\ (rpc = "loop" /\ rpc' # "loop") =>
                \/ rpc' = "grace" /\ MayStopEarly(resp') /\ elapsed < timeout
                \/ rpc' = "done" /\ exitReason' = "deadline" /\ elapsed >= timeout
                      /\ resp' = resp
          /\ (rpc = "loop" /\ elapsed < timeout /\ ~MayStopEarly(resp')) => rpc' = "loop"
          /\ rpc = "grace" => (resp' = resp /\ rpc' \in {"grace", "final"})
          /\ rpc = "final" => (rpc' = "done" /\ exitReason' = "marker" /\ resp' = resp \o inq
                                 /\ inq' = <<>>)
      ]_vars

\* the end marker came with fewer than min_bytes bytes: polled to the deadline
C32_Witness ==
    /\ rprog = "comm" /\ Returned /\ expected_end /\ min_bytes = 4
    /\ resp = <<60, 128, 124>> /\ exitReason = "deadline" /\ elapsed >= timeout

\* ------------------------------------------------ claims on the line toggle
IsLine(e) == e.k = "line"
LineTag(e) == <<e.what, e.ok>>
PulseOrder == <<<<"rts", TRUE>>, <<"rts", FALSE>>, <<"dtr", TRUE>>, <<"dtr", FALSE>>>>
Pulses == SelectSeq(trace, IsLine)

\* C33: the line toggle pulses RTS active then inactive and only then DTR
\* active then inactive; while the port is open the two lines are never
\* active together, DTR is active only while RTS is inactive, and nothing
\* is sent or received between the first assignment to a line and the end
\* of the DTR pulse (the attempt's record ends with a line entry until then):
\* every byte written after the toggle began, the resent initialization
\* among them, is written after both pulses are complete.
C33_PulsesInTurn ==
    prog \in {"comm", "proto"} =>
       LET p == Pulses
       IN  /\ Len(p) <= 4
           /\ \A j \in 1..Len(p) : LineTag(p[j]) = PulseOrder[j]
           /\ is_open => ~(rts /\ dtr)
           /\ (p # <<>> /\ Len(p) < 4) => IsLine(trace[Len(trace)])

\* the initialization was resent after both pulses
C33_Witness ==
    /\ prog = "proto" /\ Len(Pulses) = 4
    /\ \E k \in 1..Len(trace) : Tag(trace[k]) = <<"tx", "init_resend">>
    /\ ~rts /\ ~dtr /\ is_open

\* ------------------------------------------------ claims on the terminal states
\* the handshake has reached Failed or Degraded: its initialization ladder
\* is exhausted (pantilt_protocol, before run_protocol_sequence returns) or
\* the attempt is over with one of the two outcomes
TerminalReached ==
    \/ prog = "proto" /\ pc = "p_init_failed"
    \/ AttemptOver /\ (Failed \/ Degraded)

\* C34: from the moment an attempt has reached Failed or Degraded, and for
\* as long as its port stays open under the same candidate, no byte is
\* written (the attempt's record of sends and receives does not grow) and
\* neither RTS nor DTR changes.
C34_NothingAfterTerminal ==
    [][ (TerminalReached /\ is_open /\ is_open' /\ cand' = cand) =>
           (trace' = trace /\ rts' = rts /\ dtr' = dtr) ]_vars

\* pantilt_protocol has looked for leftover bytes after Failed and returned
C34_Witness ==
    /\ prog = "proto" /\ pc = "p_disc" /\ ret = "False" /\ Failed /\ is_open
    /\ ~rts /\ ~dtr /\ Len(Pulses) = 4

\* ------------------------------------------------ claims on stopping the monitor
\* stop_monitoring has been called: it has cleared the flag and is at its join
StopCalled == op_pc = "join"

\* C35: once stop_monitoring has been called the monitor thread's polling
\* loop eventually exits, whatever the interleaving of start_monitoring,
\* the thread's start-up and stop_monitoring.
C35_StopEndsMonitor == StopCalled ~> (mon_pc = "exit")

\* ------------------------------------------------ claims on the toggle's frame
\* C36: toggle_rts_dtr leaves RTS and DTR as it found them, whatever the
\* two levels were when it was called.
C36_LinesRestored ==
    (prog = "comm" /\ pc = "c_hbd_send") => (rts = trace[1].ok /\ dtr = trace[2].ok)

\* a call that found RTS active and DTR inactive has returned
C36_Witness ==
    /\ prog = "comm" /\ pc = "c_hbd_send" /\ Len(trace) = 6
    /\ trace[1].ok /\ ~trace[2].ok /\ rts /\ ~dtr

\* ------------------------------------------------ claims on the transaction log
\* what the log has to hold for the attempt's events: a TX for every command
\* handed to send_command, an RX for every receive that gave the handshake
\* a non-empty response
IsLogged(e) == e.k = "tx" \/ (e.k = "rx" /\ e.ok)
Events == SelectSeq(trace, IsLogged)
DirOf(e) == IF e.k = "tx" THEN "TX" ELSE "RX"

\* C37: the simulator's transaction log is complete and in order: entry by
\* entry it is a TX for each command sent and an RX for each non-empty
\* response read_response returned to the handshake, bytes without a start
\* marker included.
C37_LogComplete ==
    prog = "sim" =>
       /\ Len(log) = Len(Events)
       /\ \A j \in 1..Len(log) : log[j].dir = DirOf(Events[j])

\* ------------------------------------------------ claims on the simulator's exits
\* C39: in the simulator's sweep a candidate's port is closed on every way
\* out of the candidate, an operator interrupt included: it is closed when
\* the next candidate is about to be opened and when the program has ended.
C39_SimClosesOnEveryExit ==
    (prog = "sim" /\ pc \in {"s_connect", "done", "interrupted"}) => ~is_open

\* ------------------------------------------------ claims on the returned buffer
\* C38: what receive_response holds, and returns, is the bytes it has
\* drained from the port so far, in arrival order and each once: together
\* with the bytes still waiting in the port and those the device has yet to
\* send it is the device's stream. Every read appends all that waits, and
\* the exit at the deadline reads nothing more.
C38_BufferIsWhatWasDrained ==
    [][ rprog = "comm" =>
          /\ resp \o inq \o dev = stream
          /\ resp' \o inq' \o dev' = stream'
          /\ resp' # resp => (resp' = resp \o inq /\ inq' = <<>> /\ inq # <<>>)
          /\ (rpc' = "done" /\ exitReason' = "deadline") => (resp' = resp /\ inq' = inq)
          /\ rpc = "done" => (resp' = resp /\ inq' = inq)
      ]_vars

\* the final drain has added bytes that came after the end marker
C38_Witness ==
    /\ rprog = "comm" /\ Returned /\ exitReason = "marker"
    /\ resp = stream /\ Len(resp) >= 4 /\ resp[Len(resp)] # END

====
